---- MODULE Spec2Model ----
(***************************************************************************)
(* Verification model of the policy-distribution control plane:            *)
(*   - governance-evaluator/evaluator.py  (constraint cache, POST /evaluate)*)
(*   - bundle-server/server.py            (bundle rebuild and distribution) *)
(*                                                                         *)
(* Text is modelled as a sequence of one-character strings, so that        *)
(* substring tests, lengths, anchors and str() coercion are computed the   *)
(* way the Python code computes them.                                      *)
(***************************************************************************)
EXTENDS Integers, Sequences, FiniteSets, TLC

VARIABLES
    \* evaluate_constraints applied to drawn inputs
    ec_pc, ec_config, ec_arguments, ec_result,
    \* evaluator: the constraint cache and its refresher
    config_cache,       \* _config_cache: serviceName -> {instanceId, toolConfigs}
    refreshed,          \* a refresh has published a snapshot
    r_pc, r_items, r_outcomes,  \* one refresh on drawn authority responses
    \* evaluator: one POST /evaluate handler thread (its locals)
    h_pc, h_body, h_svc_entry, h_forwards, h_npl, h_response,
    \* bundle server: the authority, time, and the module's shared state
    npl_data, clock,
    npl_version,        \* number of changes the authority's data has gone through
    stable,             \* the authority has become reachable and unchanging for good
    current_bundle, current_etag, current_revision, current_built_at,
    current_version,    \* history: the authority version of the served data
    current_sse_event_id, rebuild_count, rebuild_error_count,
    data_ready, rebuild_signal,
    \* bundle server, history: rebuild cycles that returned, by outcome
    n_ok, n_failed,
    \* bundle server, history of the rebuild trigger: the authority version at
    \* the last observed state event, whether an observed event still waits for
    \* a worker fetch, the worker cycles started, the events observed during a
    \* debounce window, the authority version of the events the current worker
    \* cycle was started for
    ev_version, uncovered, n_worker, n_inside, w_trigger,
    \* bundle server: the threads that run rebuild() (their locals), the
    \* number of cycles the reconciler has started
    b_pc, b_policy, b_built, b_tmp, cycles,
    b_version,          \* history: the authority version each thread fetched
    b_fetch_id,         \* history: the latest event id when each thread fetched
    swap_seen,          \* history: the latest event id at the latest publication
    \* bundle server: the HTTP handler (its locals)
    s_pc, s_if_none_match, s_bundle, s_etag, s_response,
    hl_locals,          \* GET /health: now, the built-at read, bundle_age
    hl_response,        \* the answer of GET /health
    \* build_bundle applied to two drawn fetch results
    bb_pc, bb_in, bb_out,
    \* bundle server: the event listener thread (sse_listener)
    l_pc,               \* where the listener is: connect, streaming, backoff
    sse_connected, last_sse_event_at,
    last_event_id, backoff,     \* the listener's locals
    replay_signal,
    replay_enabled,     \* REPLAY_ENABLED, fixed at start
    \* event listener, history: the Last-Event-ID header of the latest
    \* connection attempt, what happened since the latest connection ended,
    \* the latest event handled and a bit that flips with each event, the
    \* reconciler wake-ups (up to two) since the stream was last open, the
    \* failed attempts (up to MaxFails) since the last successful connection
    l_sent, l_since, l_event, l_seen, down_wakes, l_fails,
    \* the token caches of both services and the threads calling them
    tk_impl,            \* the cache the calling threads use
    tk_cache,           \* per cache: the token and its stored expiry
    tk_lock,            \* the holder of the cache's lock, or "free"
    tk_pc, tk_result,   \* per caller: position, and what get_token returned
    tk_refreshes,       \* history: requests sent to the identity provider
    tk_issued,          \* identity provider: tokens issued so far
    tk_last,            \* history: how the latest locked section ended
    tk_pair,            \* history: the latest decisions of both caches
    tk_calls,           \* history: the calls of get_token so far
    tk_stored,          \* history: when the latest token came, and its expires_in
    \* bundle server: the replay worker and the authority's approval queue
    rp_pc, rp_queue, rp_queued, rp_i, rp_exec,
    rp_sent,            \* history: the backend requests of the running cycle
    rp_records,         \* history: the recordExecution calls of the running cycle
    rp_hist,            \* history: per approval id, what happened in all cycles
    rp_cycles,
    \* bundle server: the grants part of one fetch_npl_data run
    g_pc,
    g_policy,           \* the authority's getPolicyData answer (grants, revokedSubjects)
    g_grants            \* the grants of the policy document

constraintVars == <<ec_pc, ec_config, ec_arguments, ec_result>>
cacheVars == <<config_cache, refreshed>>
refreshVars == <<r_pc, r_items, r_outcomes>>
handlerVars == <<h_pc, h_body, h_svc_entry, h_forwards, h_npl, h_response>>
evalVars == <<constraintVars, cacheVars, refreshVars, handlerVars>>
authorityVars == <<npl_data, clock, npl_version, stable>>
servedVars == <<current_bundle, current_etag, current_revision, current_built_at>>
counterVars == <<rebuild_count, rebuild_error_count, data_ready, n_ok, n_failed>>
triggerVars == <<ev_version, uncovered, n_worker, n_inside, w_trigger>>
listenerVars == <<l_pc, sse_connected, last_sse_event_at, last_event_id, backoff,
                  replay_signal, replay_enabled, l_sent, l_since, l_event, l_seen,
                  down_wakes, l_fails>>
sseVars == <<current_sse_event_id, rebuild_signal, triggerVars, listenerVars>>
builderVars == <<b_pc, b_policy, b_built, b_tmp, cycles, b_version>>
serveVars == <<s_pc, s_if_none_match, s_bundle, s_etag, s_response, hl_locals, hl_response>>
grantVars == <<g_pc, g_policy, g_grants>>
buildVars == <<bb_pc, bb_in, bb_out, grantVars>>
tokenVars == <<tk_impl, tk_cache, tk_lock, tk_pc, tk_result, tk_refreshes, tk_issued,
               tk_last, tk_pair, tk_calls, tk_stored>>
replayVars == <<rp_pc, rp_queue, rp_queued, rp_i, rp_exec, rp_sent, rp_records, rp_hist,
                rp_cycles>>
raceVars == <<b_fetch_id, current_version, swap_seen>>
workVars == <<buildVars, tokenVars, replayVars>>
sideVars == <<workVars, raceVars>>
bundleVars == <<authorityVars, servedVars, counterVars, sseVars, builderVars, serveVars, sideVars>>
vars == <<evalVars, bundleVars>>

(***************************************************************************)
(* Bounds of the model.                                                    *)
(***************************************************************************)
MaxConstraints == 2
MaxItems == 2
MaxRebuilds == 2
MaxEvents == 2
MaxChanges == 1
MaxTicks == 3
MaxCalls == 3
MaxQueue == 2
MaxCycles == 2
\* Consecutive failures of the event stream that are counted.
MaxFails == 7
\* Subjects known to the authority.
MaxSubjects == 2

(***************************************************************************)
(* Python helpers used by evaluate_constraints.                            *)
(***************************************************************************)
\* JSON values an argument can carry: text, integer, null.
StrV(s) == [kind |-> "str", s |-> s, n |-> 0]
IntV(n) == [kind |-> "int", s |-> <<>>, n |-> n]
NullV == [kind |-> "null", s |-> <<>>, n |-> 0]

DigitChar(d) == <<"0", "1", "2", "3", "4", "5", "6", "7", "8", "9">>[d + 1]

RECURSIVE IntToText(_)
IntToText(n) == IF n < 10 THEN <<DigitChar(n)>>
                ELSE IntToText(n \div 10) \o <<DigitChar(n % 10)>>

\* str(arg_value): text stays as it is, an integer becomes its decimal digits.
PyStr(v) == IF v.kind = "str" THEN v.s
            ELSE IF v.kind = "int" THEN IntToText(v.n)
            ELSE <<"N", "o", "n", "e">>

DigitVal(c) == CHOOSE d \in 0..9 : DigitChar(d) = c

RECURSIVE PyInt(_)
\* int(values[0]) for a text of decimal digits.
PyInt(s) == IF Len(s) = 0 THEN 0
            ELSE 10 * PyInt(SubSeq(s, 1, Len(s) - 1)) + DigitVal(s[Len(s)])

\* sub in arg_str
IsSubstring(sub, s) ==
    \E i \in 0..(Len(s) - Len(sub)) : SubSeq(s, i + 1, i + Len(sub)) = sub

IsPrefix(p, s) == Len(p) <= Len(s) /\ SubSeq(s, 1, Len(p)) = p
IsSuffix(p, s) == Len(p) <= Len(s) /\ SubSeq(s, Len(s) - Len(p) + 1, Len(s)) = p

\* re.search(pattern, arg_str) for patterns made of a literal with optional
\* ^ and $ anchors.
ReSearch(pattern, s) ==
    LET headAnch == Len(pattern) > 0 /\ pattern[1] = "^"
        p1 == IF headAnch THEN SubSeq(pattern, 2, Len(pattern)) ELSE pattern
        tailAnch == Len(p1) > 0 /\ p1[Len(p1)] = "$"
        lit == IF tailAnch THEN SubSeq(p1, 1, Len(p1) - 1) ELSE p1
    IN  IF headAnch /\ tailAnch THEN s = lit
        ELSE IF headAnch THEN IsPrefix(lit, s)
        ELSE IF tailAnch THEN IsSuffix(lit, s)
        ELSE IsSubstring(lit, s)

SeqRange(q) == {q[i] : i \in 1..Len(q)}

\* arguments.get(param_name): None both for a missing key and for JSON null.
ArgGet(arguments, p) == IF p \in DOMAIN arguments THEN arguments[p] ELSE NullV

(***************************************************************************)
(* Messages.  A message is kept as the pieces its f-string is built from.  *)
(***************************************************************************)
Message(kind, text, param, arg, vals, nums) ==
    [kind |-> kind, text |-> text, param |-> param, arg |-> arg,
     vals |-> vals, nums |-> nums]

MsgSatisfied == Message("Constraints satisfied", "", "", <<>>, <<>>, <<>>)
MsgNoInstance(svc) ==
    Message("No governance instance for service", svc, "", <<>>, <<>>, <<>>)
MsgForwardFailed(err) ==
    Message("Governance evaluation failed: ", err, "", <<>>, <<>>, <<>>)
MsgAuthority(text) == Message("authority", text, "", <<>>, <<>>, <<>>)
MsgNone == Message("", "", "", <<>>, <<>>, <<>>)

\* f"Constraint violated: {description}"
MsgDescription(description) ==
    Message("Constraint violated: description", description, "", <<>>, <<>>, <<>>)
\* f"Constraint violated: {violation_detail}"
MsgDetail(detail, param, arg, vals, nums) ==
    Message("Constraint violated: detail", detail, param, arg, vals, nums)

(***************************************************************************)
(* evaluate_constraints                                                    *)
(***************************************************************************)
\* Mutant of CheckOperator: an operator outside the six known ones fails
\* the constraint (a final else branch that sets passed = False).
CheckOperatorUnknownFails(c, arg_str) ==
    LET p == c.paramName
        values == c.values
    IN  IF c.operator = "in" THEN
            IF arg_str \notin SeqRange(values)
            THEN <<FALSE, MsgDetail("not in allowed list", p, arg_str, values, <<>>)>>
            ELSE <<TRUE, MsgNone>>
        ELSE IF c.operator = "not_in" THEN
            IF arg_str \in SeqRange(values)
            THEN <<FALSE, MsgDetail("is in blocked list", p, arg_str, <<>>, <<>>)>>
            ELSE <<TRUE, MsgNone>>
        ELSE IF c.operator = "contains" THEN
            IF ~ \E i \in 1..Len(values) : IsSubstring(values[i], arg_str)
            THEN <<FALSE, MsgDetail("must contain one of", p, <<>>, values, <<>>)>>
            ELSE <<TRUE, MsgNone>>
        ELSE IF c.operator = "not_contains" THEN
            LET found == SelectSeq(values, LAMBDA sub : IsSubstring(sub, arg_str))
            IN  IF Len(found) > 0
                THEN <<FALSE, MsgDetail("must not contain", p, <<>>, found, <<>>)>>
                ELSE <<TRUE, MsgNone>>
        ELSE IF c.operator = "regex" THEN
            IF ~ \E i \in 1..Len(values) : ReSearch(values[i], arg_str)
            THEN <<FALSE, MsgDetail("does not match any allowed pattern", p, <<>>, <<>>, <<>>)>>
            ELSE <<TRUE, MsgNone>>
        ELSE IF c.operator = "max_length" THEN
            LET max_len == IF Len(values) > 0 THEN PyInt(values[1]) ELSE 0
            IN  IF Len(arg_str) > max_len
                THEN <<FALSE, MsgDetail("length exceeds max", p, <<>>, <<>>,
                                        <<Len(arg_str), max_len>>)>>
                ELSE <<TRUE, MsgNone>>
        ELSE <<FALSE, MsgDetail("unknown operator", p, <<>>, <<>>, <<>>)>>

\* The operator branches of the loop body: <<passed, violation_detail>>.
CheckOperator(c, arg_str) ==
    LET p == c.paramName
        values == c.values
    IN  IF c.operator = "in" THEN
            IF arg_str \notin SeqRange(values)
            THEN <<FALSE, MsgDetail("not in allowed list", p, arg_str, values, <<>>)>>
            ELSE <<TRUE, MsgNone>>
        ELSE IF c.operator = "not_in" THEN
            IF arg_str \in SeqRange(values)
            THEN <<FALSE, MsgDetail("is in blocked list", p, arg_str, <<>>, <<>>)>>
            ELSE <<TRUE, MsgNone>>
        ELSE IF c.operator = "contains" THEN
            IF ~ \E i \in 1..Len(values) : IsSubstring(values[i], arg_str)
            THEN <<FALSE, MsgDetail("must contain one of", p, <<>>, values, <<>>)>>
            ELSE <<TRUE, MsgNone>>
        ELSE IF c.operator = "not_contains" THEN
            LET found == SelectSeq(values, LAMBDA sub : IsSubstring(sub, arg_str))
            IN  IF Len(found) > 0
                THEN <<FALSE, MsgDetail("must not contain", p, <<>>, found, <<>>)>>
                ELSE <<TRUE, MsgNone>>
        ELSE IF c.operator = "regex" THEN
            IF ~ \E i \in 1..Len(values) : ReSearch(values[i], arg_str)
            THEN <<FALSE, MsgDetail("does not match any allowed pattern", p, <<>>, <<>>, <<>>)>>
            ELSE <<TRUE, MsgNone>>
        ELSE IF c.operator = "max_length" THEN
            LET max_len == IF Len(values) > 0 THEN PyInt(values[1]) ELSE 0
            IN  IF Len(arg_str) > max_len
                THEN <<FALSE, MsgDetail("length exceeds max", p, <<>>, <<>>,
                                        <<Len(arg_str), max_len>>)>>
                ELSE <<TRUE, MsgNone>>
        ELSE <<TRUE, MsgNone>>

\* The message of a violated constraint: the description when it is not
\* empty, the synthesized violation detail otherwise.
ViolationMessage(c, detail) ==
    IF c.description # "" THEN MsgDescription(c.description) ELSE detail

RECURSIVE EvalFromLastWins(_, _, _)
\* Mutant of EvalFrom: the loop does not return at the first violation, a
\* later violated constraint replaces the message.
EvalFromLastWins(constraints, arguments, i) ==
    IF i > Len(constraints) THEN <<TRUE, MsgSatisfied>>
    ELSE LET c == constraints[i]
             arg_value == ArgGet(arguments, c.paramName)
             rest == EvalFromLastWins(constraints, arguments, i + 1)
         IN  IF arg_value = NullV THEN rest
             ELSE LET r == CheckOperator(c, PyStr(arg_value))
                  IN  IF ~ r[1] /\ rest[1] THEN <<FALSE, ViolationMessage(c, r[2])>>
                      ELSE rest

RECURSIVE EvalFrom(_, _, _)
\* The for loop over constraints, from position i on.
EvalFrom(constraints, arguments, i) ==
    IF i > Len(constraints) THEN <<TRUE, MsgSatisfied>>
    ELSE LET c == constraints[i]
             arg_value == ArgGet(arguments, c.paramName)
         IN  IF arg_value = NullV THEN EvalFrom(constraints, arguments, i + 1)
             ELSE LET r == CheckOperator(c, PyStr(arg_value))
                  IN  IF ~ r[1] THEN <<FALSE, ViolationMessage(c, r[2])>>
                      ELSE EvalFrom(constraints, arguments, i + 1)

evaluate_constraints(tool_config, arguments) ==
    EvalFrom(tool_config.constraints, arguments, 1)

(***************************************************************************)
(* Inputs of evaluate_constraints.                                         *)
(***************************************************************************)
T_ac == <<"a", "@", "c">>
T_xe == <<"x", "@", "e">>
T_abc == <<"a", "b", "c">>

Constraint(p, op, values, description) ==
    [paramName |-> p, operator |-> op, values |-> values, description |-> description]

ConstraintSet ==
    { Constraint("to", "not_contains", << <<"@", "e">> >>, "External recipients forbidden"),
      Constraint("to", "in", <<T_ac, <<"b", "@", "c">> >>, ""),
      Constraint("to", "not_in", <<T_ac>>, "blocked"),
      Constraint("to", "contains", << <<"@", "c">>, <<"@", "d">> >>, ""),
      Constraint("to", "regex", << <<"^", "a">>, <<"e", "$">> >>, ""),
      Constraint("n", "max_length", << <<"2">> >>, "too long"),
      Constraint("n", "max_length", <<>>, ""),
      Constraint("n", "in", << <<"5">> >>, ""),
      Constraint("to", "starts_with", <<T_xe>>, "unknown operator") }

ParamNames == {"to", "n"}
ArgValues == {StrV(T_ac), StrV(T_xe), StrV(T_abc), IntV(5), IntV(12), NullV}
ArgumentMaps == UNION {[D -> ArgValues] : D \in SUBSET ParamNames}

SeqsUpTo(S, n) == UNION {[1..k -> S] : k \in 0..n}

ToolConfig(tool, ra, constraints) ==
    [toolName |-> tool, requiresApproval |-> ra, constraints |-> constraints]

NoResult == <<FALSE, MsgNone>>

(***************************************************************************)
(* The constraint cache: refresh_cache                                     *)
(***************************************************************************)
\* config_cache.get(service_name) / toolConfigs.get(tool_name) yield None for
\* a missing key.  An entry always has a non-empty instanceId and a cached
\* tool config a non-empty toolName, so these two stand for None.
NoEntry == [instanceId |-> "", toolConfigs |-> <<>>]
NoToolConfig == ToolConfig("", "absent", <<>>)

CacheGet(cache, svc) == IF svc \in DOMAIN cache THEN cache[svc] ELSE NoEntry
ToolConfigGet(entry, tool) ==
    IF tool \in DOMAIN entry.toolConfigs THEN entry.toolConfigs[tool] ELSE NoToolConfig

\* d[k] = v on a Python dict.
DictSet(d, k, v) == [x \in DOMAIN d \cup {k} |-> IF x = k THEN v ELSE d[x]]

RECURSIVE CollectToolConfigs(_, _, _)
\* for tc in cfg_resp.json(): if tool_name: tool_configs[tool_name] = tc
CollectToolConfigs(configs, i, tool_configs) ==
    IF i > Len(configs) THEN tool_configs
    ELSE CollectToolConfigs(configs, i + 1,
             IF configs[i].toolName # ""
             THEN DictSet(tool_configs, configs[i].toolName, configs[i])
             ELSE tool_configs)

\* The getToolConfigs call of one instance: the request raises, or answers
\* with a status >= 400, or answers with a list of tool configs.
FetchToolConfigs(outcome) ==
    IF outcome.kind = "ok" THEN CollectToolConfigs(outcome.configs, 1, <<>>)
    ELSE <<>>

RECURSIVE RefreshItems(_, _, _, _)
\* for item in items: ... new_cache[svc_name] = {...}
RefreshItems(items, outcomes, i, new_cache) ==
    IF i > Len(items) THEN new_cache
    ELSE IF items[i].serviceName = "" \/ items[i].id = ""
         THEN RefreshItems(items, outcomes, i + 1, new_cache)
         ELSE RefreshItems(items, outcomes, i + 1,
                  DictSet(new_cache, items[i].serviceName,
                          [instanceId |-> items[i].id,
                           toolConfigs |-> FetchToolConfigs(outcomes[i])]))

\* The snapshot one refresh builds from the authority's answers.
BuildSnapshot(items, outcomes) == RefreshItems(items, outcomes, 1, <<>>)

(***************************************************************************)
(* Authority answers seen by a refresh.                                    *)
(***************************************************************************)
C_external ==
    Constraint("to", "not_contains", << <<"@", "e">> >>, "External recipients forbidden")
C_allowed == Constraint("to", "in", <<T_ac>>, "")

TC_auto == ToolConfig("send", "false", <<C_external>>)
TC_approval == ToolConfig("send", "true", <<C_allowed, C_external>>)
TC_default == ToolConfig("send", "absent", <<>>)
TC_unnamed == ToolConfig("", "false", <<>>)
\* A config with a constraint and no requiresApproval field.
TC_unset == ToolConfig("send", "absent", <<C_external>>)

Item(id, svc) == [id |-> id, serviceName |-> svc]
ItemSet == {Item("g1", "gmail"), Item("s1", "slack"), Item("", "slack"), Item("x1", "")}

FetchOk(configs) == [kind |-> "ok", configs |-> configs]
FetchOutcomes ==
    { [kind |-> "error", configs |-> <<>>],
      [kind |-> "status4xx", configs |-> <<>>],
      FetchOk(<<>>), FetchOk(<<TC_auto>>), FetchOk(<<TC_approval>>),
      FetchOk(<<TC_unnamed, TC_default>>), FetchOk(<<TC_approval, TC_auto>>),
      FetchOk(<<TC_unset>>) }

\* The answers of one refresh: the discovered items, and for each one the
\* outcome of its getToolConfigs call.
RefreshInputs ==
    UNION {[items : [1..k -> ItemSet], outcomes : [1..k -> FetchOutcomes]] :
               k \in 0..MaxItems}

Snapshots == {BuildSnapshot(inp.items, inp.outcomes) : inp \in RefreshInputs}

(***************************************************************************)
(* POST /evaluate                                                          *)
(***************************************************************************)
\* The `arguments` field of a request body: JSON text of an object, JSON
\* text of something else (a list, a number), or text that is not JSON.
ArgsObject(map) == [kind |-> "object", map |-> map]
ArgsNonObject == [kind |-> "nonobject", map |-> <<>>]
ArgsMalformed == [kind |-> "malformed", map |-> <<>>]

\* json.loads(arguments_str), with `except: arguments = {}`.
ParseArguments(arguments_str) ==
    IF arguments_str.kind = "malformed" THEN ArgsObject(<<>>) ELSE arguments_str

Response(status, decision, requestId, message) ==
    [status |-> status, decision |-> decision, requestId |-> requestId,
     message |-> message]
NoResponse == Response(0, "", "", MsgNone)
Decision(decision, requestId, message) == Response(200, decision, requestId, message)

\* forward_to_npl: raises (token, network, timeout, status >= 400), or
\* returns the authority's JSON answer.
ForwardError(err) == [kind |-> "error", err |-> err, response |-> NoResponse]
ForwardOk(response) == [kind |-> "ok", err |-> "", response |-> response]
NoForward == [kind |-> "none", err |-> "", response |-> NoResponse]

\* Mutant of DecideLocally: requiresApproval defaults to False, so only an
\* explicit true asks for approval.
DecideLocallyDefaultOpen(svc_entry, body) ==
    IF svc_entry = NoEntry
    THEN <<"respond", Decision("deny", "", MsgNoInstance(body.serviceName))>>
    ELSE LET tool_config == ToolConfigGet(svc_entry, body.toolName)
             arguments == ParseArguments(body.arguments)
         IN  IF tool_config = NoToolConfig THEN <<"forward", NoResponse>>
             ELSE IF arguments.kind # "object" /\ Len(tool_config.constraints) > 0
             THEN <<"raise", NoResponse>>
             ELSE LET r == evaluate_constraints(tool_config, arguments.map)
                  IN  IF ~ r[1] THEN <<"respond", Decision("deny", "", r[2])>>
                      ELSE IF tool_config.requiresApproval # "true"
                      THEN <<"respond", Decision("allow", "", MsgSatisfied)>>
                      ELSE <<"forward", NoResponse>>

\* Mutant of DecideLocally: an unknown service is forwarded to the authority
\* instead of denied.
DecideLocallyForwardUnknown(svc_entry, body) ==
    LET tool_config == ToolConfigGet(svc_entry, body.toolName)
        arguments == ParseArguments(body.arguments)
    IN  IF tool_config = NoToolConfig THEN <<"forward", NoResponse>>
        ELSE IF arguments.kind # "object" /\ Len(tool_config.constraints) > 0
        THEN <<"raise", NoResponse>>
        ELSE LET r == evaluate_constraints(tool_config, arguments.map)
             IN  IF ~ r[1] THEN <<"respond", Decision("deny", "", r[2])>>
                 ELSE IF tool_config.requiresApproval = "false"
                 THEN <<"respond", Decision("allow", "", MsgSatisfied)>>
                 ELSE <<"forward", NoResponse>>

\* Mutant of DecideLocally: the auto-allow branch is missing, every request
\* whose constraints pass goes to the authority.
DecideLocallyAlwaysForward(svc_entry, body) ==
    IF svc_entry = NoEntry
    THEN <<"respond", Decision("deny", "", MsgNoInstance(body.serviceName))>>
    ELSE LET tool_config == ToolConfigGet(svc_entry, body.toolName)
             arguments == ParseArguments(body.arguments)
         IN  IF tool_config = NoToolConfig THEN <<"forward", NoResponse>>
             ELSE IF arguments.kind # "object" /\ Len(tool_config.constraints) > 0
             THEN <<"raise", NoResponse>>
             ELSE LET r == evaluate_constraints(tool_config, arguments.map)
                  IN  IF ~ r[1] THEN <<"respond", Decision("deny", "", r[2])>>
                      ELSE <<"forward", NoResponse>>

\* Mutant of DecideLocally: a config without the requiresApproval field
\* asks for approval only when it has no constraints
\* (tool_config.get("requiresApproval", not constraints)).
DecideLocallyDefaultByConstraints(svc_entry, body) ==
    IF svc_entry = NoEntry
    THEN <<"respond", Decision("deny", "", MsgNoInstance(body.serviceName))>>
    ELSE LET tool_config == ToolConfigGet(svc_entry, body.toolName)
             arguments == ParseArguments(body.arguments)
         IN  IF tool_config = NoToolConfig THEN <<"forward", NoResponse>>
             ELSE IF arguments.kind # "object" /\ Len(tool_config.constraints) > 0
             THEN <<"raise", NoResponse>>
             ELSE LET r == evaluate_constraints(tool_config, arguments.map)
                      requires_approval ==
                          IF tool_config.requiresApproval = "absent"
                          THEN tool_config.constraints = <<>>
                          ELSE tool_config.requiresApproval # "false"
                  IN  IF ~ r[1] THEN <<"respond", Decision("deny", "", r[2])>>
                      ELSE IF ~ requires_approval
                      THEN <<"respond", Decision("allow", "", MsgSatisfied)>>
                      ELSE <<"forward", NoResponse>>

\* do_POST after the cache lookup, up to the point where it either answers
\* or calls forward_to_npl: <<"respond", response>>, <<"forward", _>>, or
\* <<"raise", _>> when arguments.get() is called on a non-object.
DecideLocally(svc_entry, body) ==
    IF svc_entry = NoEntry
    THEN <<"respond", Decision("deny", "", MsgNoInstance(body.serviceName))>>
    ELSE LET tool_config == ToolConfigGet(svc_entry, body.toolName)
             arguments == ParseArguments(body.arguments)
         IN  IF tool_config = NoToolConfig THEN <<"forward", NoResponse>>
             ELSE IF arguments.kind # "object" /\ Len(tool_config.constraints) > 0
             THEN <<"raise", NoResponse>>
             ELSE LET r == evaluate_constraints(tool_config, arguments.map)
                      requires_approval == tool_config.requiresApproval # "false"
                  IN  IF ~ r[1] THEN <<"respond", Decision("deny", "", r[2])>>
                      ELSE IF ~ requires_approval
                      THEN <<"respond", Decision("allow", "", MsgSatisfied)>>
                      ELSE <<"forward", NoResponse>>

\* Mutant of AfterForward: a failed forward falls through to an allow.
AfterForwardFailOpen(outcome) ==
    IF outcome.kind = "ok" THEN outcome.response
    ELSE Decision("allow", "", MsgForwardFailed(outcome.err))

\* Mutant of AfterForward: the answer is rebuilt from the authority's
\* decision, dropping its requestId.
AfterForwardRebuilt(outcome) ==
    IF outcome.kind = "ok"
    THEN Decision(outcome.response.decision, "", outcome.response.message)
    ELSE Decision("deny", "", MsgForwardFailed(outcome.err))

\* The answer after forward_to_npl: the authority's answer as it is, or the
\* fail-closed deny of the except branch.
AfterForward(outcome) ==
    IF outcome.kind = "ok" THEN outcome.response
    ELSE Decision("deny", "", MsgForwardFailed(outcome.err))

(***************************************************************************)
(* Claims about evaluate_constraints (checked under SpecConstraints).      *)
(***************************************************************************)
\* An argument is present when arguments.get() yields a value (the code's
\* test; a JSON null counts as not provided).
ArgPresent(c, arguments) == ArgGet(arguments, c.paramName) # NullV

\* The constraint's argument is present and the operator test fails on it.
Violates(c, arguments) ==
    /\ ArgPresent(c, arguments)
    /\ ~ CheckOperator(c, PyStr(ArgGet(arguments, c.paramName)))[1]

ViolatedPositions(constraints, arguments) ==
    {i \in 1..Len(constraints) : Violates(constraints[i], arguments)}

FirstViolated(constraints, arguments) ==
    CHOOSE i \in ViolatedPositions(constraints, arguments) :
        \A j \in ViolatedPositions(constraints, arguments) : i <= j

\* C5: constraints are examined in declaration order and the first constraint
\* whose argument is present and violated produces the decision: deny with
\* that constraint's description, or with its synthesized violation detail
\* when the description is empty.  No later constraint influences the result
\* (the result is the one of the list cut after that constraint), and
\* constraints whose paramName is absent are skipped (the result is the one
\* of the list without them).
C5_FirstViolationDecides ==
    ec_pc = "done" =>
        LET cs == ec_config.constraints
            present == SelectSeq(cs, LAMBDA c : ArgPresent(c, ec_arguments))
        IN  /\ ViolatedPositions(cs, ec_arguments) # {} =>
                LET i == FirstViolated(cs, ec_arguments)
                    c == cs[i]
                    detail == CheckOperator(c, PyStr(ArgGet(ec_arguments, c.paramName)))[2]
                IN  /\ ec_result[1] = FALSE
                    /\ ec_result[2] = IF c.description # ""
                                       THEN MsgDescription(c.description)
                                       ELSE detail
                    /\ ec_result =
                         evaluate_constraints(
                             [ec_config EXCEPT !.constraints = SubSeq(cs, 1, i)],
                             ec_arguments)
            /\ ec_result =
                 evaluate_constraints([ec_config EXCEPT !.constraints = present],
                                      ec_arguments)

\* Witness of C5: two constraints, both violated by present arguments, with
\* different messages; the first one's description is the message.
C5_Witness ==
    /\ ec_pc = "done"
    /\ Len(ec_config.constraints) = 2
    /\ \A i \in 1..2 : Violates(ec_config.constraints[i], ec_arguments)
    /\ ec_config.constraints[1].description = "External recipients forbidden"
    /\ ec_config.constraints[2].description = ""
    /\ ec_result = <<FALSE, MsgDescription("External recipients forbidden")>>


(***************************************************************************)
(* Requests and authority answers seen by the handler.                     *)
(***************************************************************************)
EvalArguments ==
    { ArgsMalformed, ArgsNonObject, ArgsObject(<<>>),
      ArgsObject("to" :> StrV(T_ac)), ArgsObject("to" :> StrV(T_xe)) }

EvalBodies ==
    [serviceName : {"gmail", "slack", ""}, toolName : {"send", "read"},
     arguments : EvalArguments]

NoBody == [serviceName |-> "", toolName |-> "", arguments |-> ArgsObject(<<>>)]

NplAnswers ==
    { Decision("allow", "", MsgAuthority("approved")),
      Decision("deny", "r1", MsgAuthority("denied")),
      Decision("pending", "r2", MsgAuthority("awaiting approval")) }

ForwardOutcomes ==
    {ForwardError(e) : e \in {"timeout", "status 500"}}
        \cup {ForwardOk(a) : a \in NplAnswers}

(***************************************************************************)
(* Actions of the evaluator.                                               *)
(***************************************************************************)
\* Mutant of Publish: the refresh updates the published mapping in place,
\* key by key (_config_cache.update(new_cache)).
PublishUpdates(new_cache) ==
    /\ config_cache' =
         [svc \in DOMAIN config_cache \cup DOMAIN new_cache |->
             IF svc \in DOMAIN new_cache THEN new_cache[svc] ELSE config_cache[svc]]
    /\ refreshed' = TRUE

\* with _cache_lock: _config_cache = new_cache
Publish(new_cache) ==
    /\ config_cache' = new_cache
    /\ refreshed' = TRUE

\* refresh_cache, discovery succeeded: the snapshot built from the answers
\* replaces the cache.
RefreshCache ==
    /\ \E snap \in Snapshots : Publish(snap)
    /\ UNCHANGED <<constraintVars, refreshVars, handlerVars, bundleVars>>

\* refresh_cache, token or discovery failed: the except branch logs and
\* leaves the cache as it is.
RefreshFails ==
    /\ UNCHANGED <<constraintVars, cacheVars, refreshVars, handlerVars, bundleVars>>

\* do_POST up to the cache lookup.
Lookup ==
    /\ h_pc = "idle"
    /\ \E body \in EvalBodies :
        /\ h_body' = body
        /\ IF body.serviceName = ""
           THEN /\ h_response' = Response(400, "", "", MsgAuthority("serviceName required"))
                /\ h_pc' = "done"
                /\ UNCHANGED h_svc_entry
           ELSE /\ h_svc_entry' = CacheGet(config_cache, body.serviceName)
                /\ h_pc' = "looked_up"
                /\ UNCHANGED h_response
    /\ UNCHANGED <<h_forwards, h_npl>>
    /\ UNCHANGED <<constraintVars, cacheVars, refreshVars, bundleVars>>

\* do_POST from the lookup to its local answer or to the forward.
Evaluate ==
    /\ h_pc = "looked_up"
    /\ LET d == DecideLocally(h_svc_entry, h_body)
       IN  /\ h_pc' = IF d[1] = "forward" THEN "forward" ELSE "done"
           /\ h_response' = d[2]
    /\ UNCHANGED <<h_body, h_svc_entry, h_forwards, h_npl>>
    /\ UNCHANGED <<constraintVars, cacheVars, refreshVars, bundleVars>>

\* forward_to_npl and the answer that follows it.
Forward ==
    /\ h_pc = "forward"
    /\ \E outcome \in ForwardOutcomes :
        /\ h_npl' = outcome
        /\ h_response' = AfterForward(outcome)
    /\ h_forwards' = h_forwards + 1
    /\ h_pc' = "done"
    /\ UNCHANGED <<h_body, h_svc_entry>>
    /\ UNCHANGED <<constraintVars, cacheVars, refreshVars, bundleVars>>

HandlerIdle ==
    /\ h_pc = "idle"
    /\ h_body = NoBody
    /\ h_svc_entry = NoEntry
    /\ h_forwards = 0
    /\ h_npl = NoForward
    /\ h_response = NoResponse

\* The handler thread ends; the next request starts from fresh locals.
Finish ==
    /\ h_pc = "done"
    /\ h_pc' = "idle"
    /\ h_body' = NoBody
    /\ h_svc_entry' = NoEntry
    /\ h_forwards' = 0
    /\ h_npl' = NoForward
    /\ h_response' = NoResponse
    /\ UNCHANGED <<constraintVars, cacheVars, refreshVars, bundleVars>>

\* One refresh on recorded authority answers.
RefreshOnce ==
    /\ r_pc = "start"
    /\ Publish(BuildSnapshot(r_items, r_outcomes))
    /\ r_pc' = "done"
    /\ UNCHANGED <<r_items, r_outcomes>>
    /\ UNCHANGED <<constraintVars, handlerVars, bundleVars>>

RefreshIdle ==
    /\ r_pc = "off"
    /\ r_items = <<>>
    /\ r_outcomes = <<>>

\* Mutant of RefreshOnceFails: the failed refresh publishes the empty
\* new_cache.
RefreshOnceFailsClears ==
    /\ r_pc = "start"
    /\ r_pc' = "failed"
    /\ Publish(<<>>)
    /\ UNCHANGED <<r_items, r_outcomes>>
    /\ UNCHANGED <<constraintVars, handlerVars, bundleVars>>

\* refresh_cache when get_gateway_token or the discovery call raises (or the
\* answer cannot be walked): the outer except logs, new_cache is dropped.
RefreshOnceFails ==
    /\ r_pc = "start"
    /\ r_pc' = "failed"
    /\ UNCHANGED <<r_items, r_outcomes>>
    /\ UNCHANGED <<constraintVars, cacheVars, handlerVars, bundleVars>>

\* cache_loop: refresh_cache() has returned, time.sleep(CACHE_REFRESH_SECONDS)
\* ends and the next refresh starts.  The authority's answers stay those
\* drawn at the start; what varies from one pass to the next is whether
\* the refresh fails.
CacheLoopSleep ==
    /\ r_pc \in {"done", "failed"}
    /\ r_pc' = "start"
    /\ UNCHANGED <<r_items, r_outcomes>>
    /\ UNCHANGED <<constraintVars, cacheVars, handlerVars, bundleVars>>

(***************************************************************************)
(* Bundle server: build_bundle                                             *)
(***************************************************************************)
Data == {"d1", "d2"}
\* The gateway token handed to a rebuild (one token: its refresh is not
\* part of the rebuild interleavings studied here).
Tokens == {"t1"}

\* fetch_npl_data: the transformed policy data with the gateway token.
PolicyData(data, token) == [data |-> data, gateway_token |-> token]
NoPolicy == PolicyData("", "")

\* hashlib.sha256(canonical JSON of policy_data).hexdigest()[:16]
Revision(policy_data) ==
    "sha256(" \o policy_data.data \o "," \o policy_data.gateway_token \o ")"

\* etag = f'"{revision}"'
ETagOf(revision) == "\"" \o revision \o "\""

\* The archive: data.json (policy data plus _bundle_metadata) and .manifest.
Archive(policy_data, revision, sse_event_id, built_at) ==
    [data_json |-> [policy |-> policy_data,
                    bundle_metadata |-> [built_at |-> built_at,
                                         revision |-> revision,
                                         sse_event_id |-> sse_event_id]],
     manifest |-> [revision |-> revision, built_at |-> built_at]]

\* current_bundle = None, current_etag = None, current_built_at = None
NoBundle == Archive(NoPolicy, "", 0, -1)
NoETag == ""
NoBuiltAt == -1

Built(bundle_bytes, etag, revision, built_at) ==
    [bundle_bytes |-> bundle_bytes, etag |-> etag, revision |-> revision,
     built_at |-> built_at]
NoBuilt == Built(NoBundle, NoETag, "", NoBuiltAt)

\* build_bundle(policy_data), with the globals and the time it reads.
build_bundle(policy_data, sse_event_id, now) ==
    LET revision == Revision(policy_data)
    IN  Built(Archive(policy_data, revision, sse_event_id, now),
              ETagOf(revision), revision, now)

(***************************************************************************)
(* Bundle server: fetch_npl_data, the grants of the policy document.       *)
(***************************************************************************)
SubjectIds == <<"alice", "bob", "carol", "dave">>
\* The subjects that hold grants at the authority.
Subjects == {SubjectIds[i] : i \in 1..MaxSubjects}
\* A subject that never held a grant can be listed as revoked too.
RevocableSubjects == Subjects \cup {SubjectIds[MaxSubjects + 1]}

GrantLists == {<<>>, <<"gmail.send">>, <<"gmail.send", "slack.post">>}

\* A JSON key of the answer: present with a value, or missing.
Key(value) == [present |-> TRUE, value |-> value]
NoKey == [present |-> FALSE, value |-> <<>>]
\* d.get(key, default) with an empty list or dict as the default.
DictGet(key) == IF key.present THEN key.value ELSE <<>>

\* The sorted list of a set of subjects.
RECURSIVE ListOf(_)
ListOf(S) ==
    IF S = {} THEN <<>>
    ELSE LET i == CHOOSE i \in 1..Len(SubjectIds) :
                      /\ SubjectIds[i] \in S
                      /\ \A j \in 1..Len(SubjectIds) : SubjectIds[j] \in S => i <= j
         IN  <<SubjectIds[i]>> \o ListOf(S \ {SubjectIds[i]})

\* The getPolicyData answer, as far as the grants are concerned.
StoreData(grants, revokedSubjects) ==
    [grants |-> grants, revokedSubjects |-> revokedSubjects]
NoStoreData == StoreData(NoKey, NoKey)

StoreAnswers ==
    {StoreData(g, r) :
        g \in {NoKey} \cup {Key(m) : m \in UNION {[D -> GrantLists] : D \in SUBSET Subjects}},
        r \in {NoKey} \cup {Key(ListOf(R)) : R \in SUBSET RevocableSubjects}}

\* Mutant of FetchGrants: a revoked subject keeps its entry, with an empty
\* grant list.
FetchGrantsEmptyEntry(policy_data) ==
    LET revoked == DictGet(policy_data.revokedSubjects)
        all == DictGet(policy_data.grants)
    IN  [subject_id \in DOMAIN all |->
            IF subject_id \notin SeqRange(revoked) THEN all[subject_id] ELSE <<>>]

\* grants = {}; for subject_id, grant_list in ...items():
\*     if subject_id not in revoked: grants[subject_id] = grant_list
FetchGrants(policy_data) ==
    LET revoked == DictGet(policy_data.revokedSubjects)
        all == DictGet(policy_data.grants)
    IN  [subject_id \in {x \in DOMAIN all : x \notin SeqRange(revoked)} |->
            all[subject_id]]

\* fetch_npl_data, from the getPolicyData answer to the returned document.
FetchTransform ==
    /\ g_pc = "call"
    /\ g_grants' = FetchGrants(g_policy)
    /\ g_pc' = "done"
    /\ UNCHANGED g_policy
    /\ UNCHANGED <<bb_pc, bb_in, bb_out, tokenVars, replayVars, raceVars>>
    /\ UNCHANGED <<evalVars, authorityVars, servedVars, counterVars, sseVars, builderVars, serveVars>>

(***************************************************************************)
(* Bundle server: rebuild() and the threads that run it.                   *)
(***************************************************************************)
BuildThreads == {"main", "worker", "reconciler"}

\* Where a thread goes when rebuild() returns: main starts the other
\* threads and serves HTTP, the loops go back to their wait.
Home(t) == IF t = "main" THEN "serving"
           ELSE IF t = "worker" THEN "wait" ELSE "sleep"

\* The pcs of all threads after thread t returned from rebuild().
Returned(t) ==
    IF t = "main"
    THEN [u \in BuildThreads |-> Home(u)]
    ELSE [b_pc EXCEPT ![t] = Home(t)]

\* History: the worker's authority fetch of this cycle starts; the events
\* observed so far are the ones this cycle answers.
FetchStarts(t) ==
    IF t = "worker"
    THEN uncovered' = FALSE /\ w_trigger' = ev_version
    ELSE UNCHANGED <<uncovered, w_trigger>>

\* Mutant of FetchNplData: the data of an earlier fetch (the authority's
\* first state) is used again instead of a new fetch.
FetchNplDataCached(t) ==
    /\ b_pc[t] = "fetch"
    /\ \E token \in Tokens :
        b_policy' = [b_policy EXCEPT ![t] = PolicyData("d1", token)]
    /\ b_version' = [b_version EXCEPT ![t] = 0]
    /\ FetchStarts(t)
    /\ b_pc' = [b_pc EXCEPT ![t] = "build"]
    /\ UNCHANGED <<b_built, b_tmp, cycles>>
    /\ UNCHANGED <<current_sse_event_id, rebuild_signal, ev_version, n_worker, n_inside>>
    /\ UNCHANGED listenerVars
    /\ UNCHANGED <<evalVars, workVars, authorityVars, servedVars, counterVars, serveVars>>

\* policy_data = fetch_npl_data()
FetchNplData(t) ==
    /\ b_pc[t] = "fetch"
    /\ \E token \in Tokens :
        b_policy' = [b_policy EXCEPT ![t] = PolicyData(npl_data, token)]
    /\ b_version' = [b_version EXCEPT ![t] = npl_version]
    /\ FetchStarts(t)
    /\ b_pc' = [b_pc EXCEPT ![t] = "build"]
    /\ UNCHANGED <<b_built, b_tmp, cycles>>
    /\ UNCHANGED <<current_sse_event_id, rebuild_signal, ev_version, n_worker, n_inside>>
    /\ UNCHANGED listenerVars
    /\ UNCHANGED <<evalVars, workVars, authorityVars, servedVars, counterVars, serveVars>>

\* fetch_npl_data() raises: token, network, status >= 400.
FetchNplDataFails(t) ==
    /\ b_pc[t] = "fetch"
    /\ ~ stable
    /\ FetchStarts(t)
    /\ b_pc' = [b_pc EXCEPT ![t] = "error_load"]
    /\ UNCHANGED <<b_policy, b_built, b_tmp, cycles, b_version>>
    /\ UNCHANGED <<current_sse_event_id, rebuild_signal, ev_version, n_worker, n_inside>>
    /\ UNCHANGED listenerVars
    /\ UNCHANGED <<evalVars, workVars, authorityVars, servedVars, counterVars, serveVars>>

\* bundle_bytes, etag, revision = build_bundle(policy_data); built_at = time.time()
BuildBundle(t) ==
    /\ b_pc[t] = "build"
    /\ b_built' = [b_built EXCEPT
                      ![t] = build_bundle(b_policy[t], current_sse_event_id, clock)]
    /\ b_pc' = [b_pc EXCEPT ![t] = "swap"]
    /\ UNCHANGED <<b_policy, b_tmp, cycles, b_version>>
    /\ UNCHANGED <<evalVars, workVars, authorityVars, servedVars, counterVars, sseVars, serveVars>>

\* Mutant of SwapBundle: the swap publishes the new bytes and revision but
\* not the new ETag.
SwapBundleStaleETag(t) ==
    /\ b_pc[t] = "swap"
    /\ current_bundle' = b_built[t].bundle_bytes
    /\ current_etag' = IF current_etag = NoETag THEN b_built[t].etag ELSE current_etag
    /\ current_revision' = b_built[t].revision
    /\ current_built_at' = b_built[t].built_at
    /\ b_pc' = [b_pc EXCEPT ![t] = "count_load"]
    /\ UNCHANGED <<b_policy, b_built, b_tmp, cycles, b_version>>
    /\ UNCHANGED <<evalVars, workVars, authorityVars, counterVars, sseVars, serveVars>>

\* with bundle_lock: current_bundle, current_etag, current_revision,
\* current_built_at = ...
SwapBundle(t) ==
    /\ b_pc[t] = "swap"
    /\ current_bundle' = b_built[t].bundle_bytes
    /\ current_etag' = b_built[t].etag
    /\ current_revision' = b_built[t].revision
    /\ current_built_at' = b_built[t].built_at
    /\ b_pc' = [b_pc EXCEPT ![t] = "count_load"]
    /\ UNCHANGED <<b_policy, b_built, b_tmp, cycles, b_version>>
    /\ UNCHANGED <<evalVars, workVars, authorityVars, counterVars, sseVars, serveVars>>

\* rebuild_count += 1, the read of the global.
CountLoad(t) ==
    /\ b_pc[t] = "count_load"
    /\ b_tmp' = [b_tmp EXCEPT ![t] = rebuild_count]
    /\ b_pc' = [b_pc EXCEPT ![t] = "count_store"]
    /\ UNCHANGED <<b_policy, b_built, cycles, b_version>>
    /\ UNCHANGED <<evalVars, workVars, authorityVars, servedVars, counterVars, sseVars, serveVars>>

\* rebuild_count += 1, the write; data_ready.set(); rebuild() returns.
CountStore(t) ==
    /\ b_pc[t] = "count_store"
    /\ rebuild_count' = b_tmp[t] + 1
    /\ data_ready' = TRUE
    /\ n_ok' = n_ok + 1
    /\ b_pc' = Returned(t)
    /\ b_policy' = [b_policy EXCEPT ![t] = NoPolicy]
    /\ b_built' = [b_built EXCEPT ![t] = NoBuilt]
    /\ b_tmp' = [b_tmp EXCEPT ![t] = 0]
    /\ b_version' = [b_version EXCEPT ![t] = 0]
    /\ UNCHANGED <<rebuild_error_count, n_failed, cycles>>
    /\ UNCHANGED <<evalVars, workVars, authorityVars, servedVars, sseVars, serveVars>>

\* except: rebuild_error_count += 1, the read of the global.
ErrorLoad(t) ==
    /\ b_pc[t] = "error_load"
    /\ b_tmp' = [b_tmp EXCEPT ![t] = rebuild_error_count]
    /\ b_pc' = [b_pc EXCEPT ![t] = "error_store"]
    /\ UNCHANGED <<b_policy, b_built, cycles, b_version>>
    /\ UNCHANGED <<evalVars, workVars, authorityVars, servedVars, counterVars, sseVars, serveVars>>

\* Mutant of ErrorStore: the failure is counted but not survived; the thread
\* that ran the failed cycle ends.
ErrorStoreThreadDies(t) ==
    /\ b_pc[t] = "error_store"
    /\ rebuild_error_count' = b_tmp[t] + 1
    /\ n_failed' = n_failed + 1
    /\ b_pc' = [b_pc EXCEPT ![t] = "dead"]
    /\ b_tmp' = [b_tmp EXCEPT ![t] = 0]
    /\ b_version' = [b_version EXCEPT ![t] = 0]
    /\ UNCHANGED <<rebuild_count, data_ready, n_ok, b_policy, b_built, cycles>>
    /\ UNCHANGED <<evalVars, workVars, authorityVars, servedVars, sseVars, serveVars>>

\* except: rebuild_error_count += 1, the write; rebuild() returns.
ErrorStore(t) ==
    /\ b_pc[t] = "error_store"
    /\ rebuild_error_count' = b_tmp[t] + 1
    /\ n_failed' = n_failed + 1
    /\ b_pc' = Returned(t)
    /\ b_tmp' = [b_tmp EXCEPT ![t] = 0]
    /\ b_version' = [b_version EXCEPT ![t] = 0]
    /\ UNCHANGED <<rebuild_count, data_ready, n_ok, b_policy, b_built, cycles>>
    /\ UNCHANGED <<evalVars, workVars, authorityVars, servedVars, sseVars, serveVars>>

\* One step of rebuild() in thread t.
RebuildCycle(t) ==
    \/ FetchNplData(t)
    \/ FetchNplDataFails(t)
    \/ BuildBundle(t)
    \/ SwapBundle(t)
    \/ CountLoad(t)
    \/ CountStore(t)
    \/ ErrorLoad(t)
    \/ ErrorStore(t)

RebuildStep(t) == RebuildCycle(t) /\ UNCHANGED raceVars

\* History of a step of rebuild(): the latest event id the listener had seen
\* when the fetch returned, the authority version of the data a swap
\* publishes, and the latest event id seen at the time of the swap.
Observe(t) ==
    /\ b_fetch_id' = IF b_pc[t] = "fetch" /\ b_pc'[t] = "build"
                     THEN [b_fetch_id EXCEPT ![t] = current_sse_event_id]
                     ELSE b_fetch_id
    /\ current_version' = IF b_pc[t] = "swap" /\ b_pc'[t] = "count_load"
                          THEN b_version[t]
                          ELSE current_version
    /\ swap_seen' = IF b_pc[t] = "swap" /\ b_pc'[t] = "count_load"
                    THEN current_sse_event_id
                    ELSE swap_seen

RebuildObserved == \E t \in BuildThreads : RebuildCycle(t) /\ Observe(t)

\* rebuild_loop: rebuild_signal.wait(); rebuild_signal.clear()
WorkerWake ==
    /\ b_pc["worker"] = "wait"
    /\ rebuild_signal
    /\ rebuild_signal' = FALSE
    /\ b_pc' = [b_pc EXCEPT !["worker"] = "debounce"]
    /\ n_worker' = n_worker + 1
    /\ UNCHANGED <<current_sse_event_id, ev_version, uncovered, n_inside, w_trigger>>
    /\ UNCHANGED listenerVars
    /\ UNCHANGED <<b_policy, b_built, b_tmp, cycles, b_version>>
    /\ UNCHANGED <<evalVars, sideVars, authorityVars, servedVars, counterVars, serveVars>>

\* Mutant of WorkerDebounced: the signals raised during the sleep are not
\* drained.
WorkerDebouncedNoDrain ==
    /\ b_pc["worker"] = "debounce"
    /\ b_pc' = [b_pc EXCEPT !["worker"] = "fetch"]
    /\ UNCHANGED <<current_sse_event_id, rebuild_signal, triggerVars, listenerVars>>
    /\ UNCHANGED <<b_policy, b_built, b_tmp, cycles, b_version>>
    /\ UNCHANGED <<evalVars, sideVars, authorityVars, servedVars, counterVars, serveVars>>

\* rebuild_loop: time.sleep(0.1); rebuild_signal.clear(); rebuild()
WorkerDebounced ==
    /\ b_pc["worker"] = "debounce"
    /\ rebuild_signal' = FALSE
    /\ b_pc' = [b_pc EXCEPT !["worker"] = "fetch"]
    /\ UNCHANGED <<current_sse_event_id, triggerVars, listenerVars>>
    /\ UNCHANGED <<b_policy, b_built, b_tmp, cycles, b_version>>
    /\ UNCHANGED <<evalVars, sideVars, authorityVars, servedVars, counterVars, serveVars>>

\* reconciliation_loop: time.sleep(RECONCILIATION_INTERVAL); rebuild()
ReconcilerWake ==
    /\ b_pc["reconciler"] = "sleep"
    /\ cycles < MaxRebuilds
    /\ b_pc' = [b_pc EXCEPT !["reconciler"] = "fetch"]
    /\ cycles' = cycles + 1
    /\ down_wakes' = IF l_pc = "streaming" THEN 0
                     ELSE IF down_wakes < 2 THEN down_wakes + 1 ELSE 2
    /\ UNCHANGED <<b_policy, b_built, b_tmp, b_version>>
    /\ UNCHANGED <<current_sse_event_id, rebuild_signal, triggerVars>>
    /\ UNCHANGED <<l_pc, sse_connected, last_sse_event_at, last_event_id, backoff,
                   replay_signal, replay_enabled, l_sent, l_since, l_event, l_seen, l_fails>>
    /\ UNCHANGED <<evalVars, sideVars, authorityVars, servedVars, counterVars, serveVars>>

\* An event of the stream: its type and its id (0: the id is empty).
Event(type, id) == [type |-> type, id |-> id]
NoEvent == Event("", 0)

\* Mutant of StateEvent: the listener records the event but does not set
\* the rebuild signal.
StateEventNoSignal ==
    /\ b_pc["main"] = "serving"
    /\ l_pc = "streaming"
    /\ current_sse_event_id < MaxEvents
    /\ last_sse_event_at' = clock
    /\ last_event_id' = current_sse_event_id + 1
    /\ current_sse_event_id' = current_sse_event_id + 1
    /\ replay_signal' = (replay_enabled \/ replay_signal)
    /\ l_event' = Event("state", current_sse_event_id + 1)
    /\ l_seen' = ~ l_seen
    /\ ev_version' = npl_version
    /\ uncovered' = TRUE
    /\ n_inside' = n_inside + (IF b_pc["worker"] = "debounce" THEN 1 ELSE 0)
    /\ UNCHANGED <<rebuild_signal, n_worker, w_trigger>>
    /\ UNCHANGED <<l_pc, sse_connected, backoff, replay_enabled, l_sent, l_since, down_wakes, l_fails>>
    /\ UNCHANGED <<evalVars, sideVars, authorityVars, servedVars, counterVars, builderVars, serveVars>>

\* sse_listener: a state event with an id arrives.
StateEvent ==
    /\ b_pc["main"] = "serving"
    /\ l_pc = "streaming"
    /\ current_sse_event_id < MaxEvents
    /\ last_sse_event_at' = clock
    /\ last_event_id' = current_sse_event_id + 1
    /\ current_sse_event_id' = current_sse_event_id + 1
    /\ rebuild_signal' = TRUE
    /\ replay_signal' = (replay_enabled \/ replay_signal)
    /\ l_event' = Event("state", current_sse_event_id + 1)
    /\ l_seen' = ~ l_seen
    /\ ev_version' = npl_version
    /\ uncovered' = TRUE
    /\ n_inside' = n_inside + (IF b_pc["worker"] = "debounce" THEN 1 ELSE 0)
    /\ UNCHANGED <<n_worker, w_trigger>>
    /\ UNCHANGED <<l_pc, sse_connected, backoff, replay_enabled, l_sent, l_since, down_wakes, l_fails>>
    /\ UNCHANGED <<evalVars, sideVars, authorityVars, servedVars, counterVars, builderVars, serveVars>>

\* sse_listener: a state event with an empty id arrives.
StateEventNoId ==
    /\ b_pc["main"] = "serving"
    /\ l_pc = "streaming"
    /\ last_sse_event_at' = clock
    /\ rebuild_signal' = TRUE
    /\ replay_signal' = (replay_enabled \/ replay_signal)
    /\ l_event' = Event("state", 0)
    /\ l_seen' = ~ l_seen
    /\ ev_version' = npl_version
    /\ uncovered' = TRUE
    /\ n_inside' = n_inside + (IF b_pc["worker"] = "debounce" THEN 1 ELSE 0)
    /\ UNCHANGED <<current_sse_event_id, last_event_id, n_worker, w_trigger>>
    /\ UNCHANGED <<l_pc, sse_connected, backoff, replay_enabled, l_sent, l_since, down_wakes, l_fails>>
    /\ UNCHANGED <<evalVars, sideVars, authorityVars, servedVars, counterVars, builderVars, serveVars>>

\* The ids an event that is not a state event can carry: none, or one no
\* state event carries.
OtherIds == {0, MaxEvents + 1}

\* Mutant of TickEvent: the time of the last event is taken before the type
\* of the event is looked at.
TickEventTouches ==
    /\ b_pc["main"] = "serving"
    /\ l_pc = "streaming"
    /\ \E id \in OtherIds : l_event' = Event("tick", id)
    /\ l_seen' = ~ l_seen
    /\ last_sse_event_at' = clock
    /\ UNCHANGED <<current_sse_event_id, rebuild_signal, triggerVars>>
    /\ UNCHANGED <<l_pc, sse_connected, last_event_id, backoff, replay_signal,
                   replay_enabled, l_sent, l_since, down_wakes, l_fails>>
    /\ UNCHANGED <<evalVars, sideVars, authorityVars, servedVars, counterVars, builderVars, serveVars>>

\* sse_listener: a tick event arrives (elif event.event == "tick": pass).
TickEvent ==
    /\ b_pc["main"] = "serving"
    /\ l_pc = "streaming"
    /\ \E id \in OtherIds : l_event' = Event("tick", id)
    /\ l_seen' = ~ l_seen
    /\ UNCHANGED <<current_sse_event_id, rebuild_signal, triggerVars>>
    /\ UNCHANGED <<l_pc, sse_connected, last_sse_event_at, last_event_id, backoff,
                   replay_signal, replay_enabled, l_sent, l_since, down_wakes, l_fails>>
    /\ UNCHANGED <<evalVars, sideVars, authorityVars, servedVars, counterVars, builderVars, serveVars>>

\* sse_listener: an event of another type arrives (no branch of the if).
OtherEvent ==
    /\ b_pc["main"] = "serving"
    /\ l_pc = "streaming"
    /\ \E id \in OtherIds : l_event' = Event("message", id)
    /\ l_seen' = ~ l_seen
    /\ UNCHANGED <<current_sse_event_id, rebuild_signal, triggerVars>>
    /\ UNCHANGED <<l_pc, sse_connected, last_sse_event_at, last_event_id, backoff,
                   replay_signal, replay_enabled, l_sent, l_since, down_wakes, l_fails>>
    /\ UNCHANGED <<evalVars, sideVars, authorityVars, servedVars, counterVars, builderVars, serveVars>>

(***************************************************************************)
(* Bundle server: the event listener's connection loop.                    *)
(***************************************************************************)
BACKOFF_CAP == 30

Min(a, b) == IF a < b THEN a ELSE b

\* sse_listener, try: the headers (Last-Event-ID when last_event_id is not
\* None), the GET answers 2xx; backoff = 1; sse_connected = True.
SseConnect ==
    /\ b_pc["main"] = "serving"
    /\ l_pc = "connect"
    /\ l_sent' = last_event_id
    /\ backoff' = 1
    /\ sse_connected' = TRUE
    /\ l_pc' = "streaming"
    /\ down_wakes' = 0
    /\ l_fails' = 0
    /\ UNCHANGED <<last_sse_event_at, last_event_id, replay_signal, replay_enabled,
                   l_since, l_event, l_seen>>
    /\ UNCHANGED <<current_sse_event_id, rebuild_signal, triggerVars>>
    /\ UNCHANGED <<evalVars, sideVars, authorityVars, servedVars, counterVars, builderVars, serveVars>>

\* sse_listener, try: auth_header(), the GET or raise_for_status() raises;
\* except: sse_connected = False.
SseConnectFails ==
    /\ b_pc["main"] = "serving"
    /\ l_pc = "connect"
    /\ l_sent' = last_event_id
    /\ sse_connected' = FALSE
    /\ l_pc' = "backoff"
    /\ l_since' = "ended"
    /\ UNCHANGED <<last_sse_event_at, last_event_id, backoff, replay_signal,
                   replay_enabled, l_event, l_seen, down_wakes>>
    /\ l_fails' = IF l_fails < MaxFails THEN l_fails + 1 ELSE MaxFails
    /\ UNCHANGED <<current_sse_event_id, rebuild_signal, triggerVars>>
    /\ UNCHANGED <<evalVars, sideVars, authorityVars, servedVars, counterVars, builderVars, serveVars>>

\* Mutant of SseStreamRaises: last_event_id belongs to one connection and is
\* gone with it.
SseStreamRaisesForgets ==
    /\ b_pc["main"] = "serving"
    /\ l_pc = "streaming"
    /\ sse_connected' = FALSE
    /\ last_event_id' = 0
    /\ l_pc' = "backoff"
    /\ l_since' = "ended"
    /\ UNCHANGED <<last_sse_event_at, backoff, replay_signal,
                   replay_enabled, l_sent, l_event, l_seen, down_wakes>>
    /\ l_fails' = IF l_fails < MaxFails THEN l_fails + 1 ELSE MaxFails
    /\ UNCHANGED <<current_sse_event_id, rebuild_signal, triggerVars>>
    /\ UNCHANGED <<evalVars, sideVars, authorityVars, servedVars, counterVars, builderVars, serveVars>>

\* sse_listener: client.events() raises (the connection breaks);
\* except: sse_connected = False.
SseStreamRaises ==
    /\ b_pc["main"] = "serving"
    /\ l_pc = "streaming"
    /\ sse_connected' = FALSE
    /\ l_pc' = "backoff"
    /\ l_since' = "ended"
    /\ UNCHANGED <<last_sse_event_at, last_event_id, backoff, replay_signal,
                   replay_enabled, l_sent, l_event, l_seen, down_wakes>>
    /\ l_fails' = IF l_fails < MaxFails THEN l_fails + 1 ELSE MaxFails
    /\ UNCHANGED <<current_sse_event_id, rebuild_signal, triggerVars>>
    /\ UNCHANGED <<evalVars, sideVars, authorityVars, servedVars, counterVars, builderVars, serveVars>>

\* sse_listener: the server closes the stream, client.events() is exhausted,
\* the for loop ends and the while loop starts over.
SseStreamEnds ==
    /\ b_pc["main"] = "serving"
    /\ l_pc = "streaming"
    /\ l_pc' = "connect"
    /\ l_since' = "ended"
    /\ UNCHANGED <<sse_connected, last_sse_event_at, last_event_id, backoff,
                   replay_signal, replay_enabled, l_sent, l_event, l_seen, down_wakes, l_fails>>
    /\ UNCHANGED <<current_sse_event_id, rebuild_signal, triggerVars>>
    /\ UNCHANGED <<evalVars, sideVars, authorityVars, servedVars, counterVars, builderVars, serveVars>>

\* Mutant of BackoffSlept: the doubling has no cap (backoff = backoff * 2).
BackoffSleptNoCap ==
    /\ l_pc = "backoff"
    /\ backoff' = backoff * 2
    /\ l_pc' = "connect"
    /\ l_since' = "slept"
    /\ UNCHANGED <<sse_connected, last_sse_event_at, last_event_id, replay_signal,
                   replay_enabled, l_sent, l_event, l_seen, down_wakes, l_fails>>
    /\ UNCHANGED <<current_sse_event_id, rebuild_signal, triggerVars>>
    /\ UNCHANGED <<evalVars, sideVars, authorityVars, servedVars, counterVars, builderVars, serveVars>>

\* sse_listener, except: time.sleep(backoff); backoff = min(backoff * 2, 30)
BackoffSlept ==
    /\ l_pc = "backoff"
    /\ backoff' = Min(backoff * 2, BACKOFF_CAP)
    /\ l_pc' = "connect"
    /\ l_since' = "slept"
    /\ UNCHANGED <<sse_connected, last_sse_event_at, last_event_id, replay_signal,
                   replay_enabled, l_sent, l_event, l_seen, down_wakes, l_fails>>
    /\ UNCHANGED <<current_sse_event_id, rebuild_signal, triggerVars>>
    /\ UNCHANGED <<evalVars, sideVars, authorityVars, servedVars, counterVars, builderVars, serveVars>>

\* The listener thread before it runs.
ListenerStart ==
    /\ l_pc = "connect"
    /\ sse_connected = FALSE
    /\ last_sse_event_at = NoBuiltAt
    /\ last_event_id = 0
    /\ backoff = 1
    /\ replay_signal = FALSE
    /\ l_sent = 0
    /\ l_since = "start"
    /\ l_event = NoEvent
    /\ l_seen = FALSE
    /\ down_wakes = 0
    /\ l_fails = 0

\* Time passes, five seconds at a time.
Tick ==
    /\ clock < MaxTicks * 5
    /\ clock' = clock + 5
    /\ UNCHANGED <<npl_data, npl_version, stable>>
    /\ UNCHANGED <<evalVars, sideVars, servedVars, counterVars, sseVars, builderVars, serveVars>>

\* The authority's policy data changes.
AuthorityChange ==
    /\ ~ stable
    /\ npl_version < MaxChanges
    /\ \E d \in Data \ {npl_data} : npl_data' = d
    /\ npl_version' = npl_version + 1
    /\ UNCHANGED <<clock, stable>>
    /\ UNCHANGED <<evalVars, sideVars, servedVars, counterVars, sseVars, builderVars, serveVars>>

\* From here on the authority is reachable and its data no longer changes
\* (while the reconciler still has a cycle to run).
Stabilise ==
    /\ ~ stable
    /\ b_pc["main"] = "serving"
    /\ cycles < MaxRebuilds
    /\ stable' = TRUE
    /\ UNCHANGED <<npl_data, clock, npl_version>>
    /\ UNCHANGED <<evalVars, sideVars, servedVars, counterVars, sseVars, builderVars, serveVars>>

(***************************************************************************)
(* Bundle server: GET /bundles/mcp/data.tar.gz                             *)
(***************************************************************************)
\* self.headers.get("If-None-Match"): None when the header is absent.
Header(value) == [present |-> TRUE, value |-> value]
NoHeader == [present |-> FALSE, value |-> ""]

Revisions == {Revision(PolicyData(d, t)) : d \in Data, t \in Tokens}

\* Header values of a request: none, empty, *, a quoted revision, and for
\* the revision of d1 also its unquoted and its weak form.
IfNoneMatchValues ==
    {NoHeader, Header(""), Header("*")}
        \cup {Header(ETagOf(r)) : r \in Revisions}
        \cup {Header(Revision(PolicyData("d1", "t1"))),
              Header("W/" \o ETagOf(Revision(PolicyData("d1", "t1"))))}

HttpResponse(status, etag, body) == [status |-> status, etag |-> etag, body |-> body]
NoHttpResponse == HttpResponse(0, NoETag, NoBundle)

\* Mutant of ServeBundleResponse: If-None-Match: * matches every ETag.
ServeBundleResponseWildcard(bundle, etag, if_none_match) ==
    IF bundle = NoBundle THEN HttpResponse(503, NoETag, NoBundle)
    ELSE IF if_none_match.present /\ if_none_match.value # ""
            /\ (if_none_match.value = etag \/ if_none_match.value = "*")
    THEN HttpResponse(304, etag, NoBundle)
    ELSE HttpResponse(200, etag, bundle)

\* Mutant of ServeBundleResponse: the conditional request is answered before
\* the bundle is tested for absence.
ServeBundleResponseConditionalFirst(bundle, etag, if_none_match) ==
    IF if_none_match.present /\ if_none_match.value = etag
    THEN HttpResponse(304, etag, NoBundle)
    ELSE IF bundle = NoBundle THEN HttpResponse(503, NoETag, NoBundle)
    ELSE HttpResponse(200, etag, bundle)

\* serve_bundle after the locked read: 503, 304 or 200.
ServeBundleResponse(bundle, etag, if_none_match) ==
    IF bundle = NoBundle THEN HttpResponse(503, NoETag, NoBundle)
    ELSE IF if_none_match.present /\ if_none_match.value # ""
            /\ if_none_match.value = etag
    THEN HttpResponse(304, etag, NoBundle)
    ELSE HttpResponse(200, etag, bundle)

(***************************************************************************)
(* Bundle server: GET /health.  Time is counted in hundredths of a second. *)
(***************************************************************************)
STALENESS_THRESHOLD == 60

\* The values time.time() returns to a health request.
Now == {0, 6000, 6004, 6100}

\* round(x, 1), for x in hundredths (no drawn age ends in 5).
RoundTenths(x) == ((x + 5) \div 10) * 10

\* bundle_age: None when current_built_at is None.
Age(value) == [present |-> TRUE, value |-> value]
NoAge == [present |-> FALSE, value |-> 0]
BundleAge(now, built_at) ==
    IF built_at = NoBuiltAt THEN NoAge ELSE Age(RoundTenths(now - built_at))

HealthLocals(now, built_at, bundle_age) ==
    [now |-> now, built_at |-> built_at, bundle_age |-> bundle_age]
NoHealthLocals == HealthLocals(0, NoBuiltAt, NoAge)

HealthResponse(http_status, status, revision, bundle_age, connected, rc, rec) ==
    [http_status |-> http_status, status |-> status, revision |-> revision,
     bundle_age_seconds |-> bundle_age, sse_connected |-> connected,
     rebuild_count |-> rc, rebuild_error_count |-> rec]
NoHealthResponse == HealthResponse(0, "", "", NoAge, FALSE, 0, 0)

\* serve_health: the status and the body, from the age computed before and
\* the globals read now.
ServeHealthResponse(bundle_age, ready, revision, connected, rc, rec) ==
    LET stale == bundle_age.present
                    /\ bundle_age.value > STALENESS_THRESHOLD * 100
        status == IF ~ ready THEN "initializing"
                  ELSE IF stale THEN "degraded" ELSE "healthy"
        http_status == IF status \in {"healthy", "degraded"} THEN 200 ELSE 503
    IN  HealthResponse(http_status, status, revision, bundle_age, connected, rc, rec)

(***************************************************************************)
(* Bundle server: the HTTP server (one request at a time).                 *)
(***************************************************************************)
\* serve_bundle: with bundle_lock: bundle = current_bundle; etag = current_etag
ServeRead ==
    /\ b_pc["main"] = "serving"
    /\ s_pc = "idle"
    /\ s_bundle' = current_bundle
    /\ s_etag' = current_etag
    /\ s_pc' = "read"
    /\ UNCHANGED <<s_if_none_match, s_response, hl_locals, hl_response>>
    /\ UNCHANGED <<evalVars, sideVars, authorityVars, servedVars, counterVars, sseVars, builderVars>>

\* serve_bundle: the answer, for the If-None-Match header the request came
\* with.
ServeRespond ==
    /\ s_pc = "read"
    /\ \E h \in IfNoneMatchValues :
        /\ s_if_none_match' = h
        /\ s_response' = ServeBundleResponse(s_bundle, s_etag, h)
    /\ s_pc' = "done"
    /\ UNCHANGED <<s_bundle, s_etag, hl_locals, hl_response>>
    /\ UNCHANGED <<evalVars, sideVars, authorityVars, servedVars, counterVars, sseVars, builderVars>>

\* serve_health: now = time.time(); bundle_age = round(now - current_built_at, 1)
ServeHealthAge ==
    /\ b_pc["main"] = "serving"
    /\ s_pc = "idle"
    /\ \E now \in Now :
        hl_locals' = HealthLocals(now, current_built_at, BundleAge(now, current_built_at))
    /\ s_pc' = "health"
    /\ UNCHANGED <<s_if_none_match, s_bundle, s_etag, s_response, hl_response>>
    /\ UNCHANGED <<evalVars, sideVars, authorityVars, servedVars, counterVars, sseVars, builderVars>>

\* serve_health: the status from data_ready and the age, the body from the
\* globals, the answer.
ServeHealthRespond ==
    /\ s_pc = "health"
    /\ hl_response' = ServeHealthResponse(hl_locals.bundle_age, data_ready,
                                          current_revision, sse_connected,
                                          rebuild_count, rebuild_error_count)
    /\ s_pc' = "health_done"
    /\ UNCHANGED <<s_if_none_match, s_bundle, s_etag, s_response, hl_locals>>
    /\ UNCHANGED <<evalVars, sideVars, authorityVars, servedVars, counterVars, sseVars, builderVars>>

\* The request is over.
ServeFinish ==
    /\ s_pc \in {"done", "health_done"}
    /\ s_pc' = "idle"
    /\ s_if_none_match' = NoHeader
    /\ s_bundle' = NoBundle
    /\ s_etag' = NoETag
    /\ s_response' = NoHttpResponse
    /\ hl_locals' = NoHealthLocals
    /\ hl_response' = NoHealthResponse
    /\ UNCHANGED <<evalVars, sideVars, authorityVars, servedVars, counterVars, sseVars, builderVars>>

(***************************************************************************)
(* The token caches: TokenManager (bundle server) and get_gateway_token    *)
(* (evaluator).  Time is counted in seconds; a token is the number of the  *)
(* identity provider's answer that carried it, 0 is None.                  *)
(***************************************************************************)
Impls == {"bundle", "evaluator"}
Callers == {"c1", "c2"}

TOKEN_SLACK == 10
DEFAULT_EXPIRES_IN == 60

\* The token and the expiry a cache stores (_token, _expires_at;
\* _cached_token, _token_expires).
TokenCache(token, expires) == [token |-> token, expires |-> expires]
NoTokenCache == TokenCache(0, 0)

\* The identity provider's answer: a 2xx body, in which expires_in may be
\* missing, or a failure (no answer, or a status >= 400).
NoExpiresIn == -1
IdpBody(expires_in) == [ok |-> TRUE, expires_in |-> expires_in]
IdpError == [ok |-> FALSE, expires_in |-> NoExpiresIn]
IdpBodies == {IdpBody(e) : e \in {NoExpiresIn, 10, 20}}

\* body.get("expires_in", 60)
ExpiresIn(body) ==
    IF body.expires_in = NoExpiresIn THEN DEFAULT_EXPIRES_IN ELSE body.expires_in

\* Mutant of CachedValid: the evaluator compares with the stored expiry
\* itself.
CachedValidNoSlack(impl, cache, now) ==
    cache.token # 0 /\ now < cache.expires

\* if self._token and time.time() < self._expires_at
\* if _cached_token and time.time() < _token_expires - 10
CachedValid(impl, cache, now) ==
    IF impl = "bundle"
    THEN cache.token # 0 /\ now < cache.expires
    ELSE cache.token # 0 /\ now < cache.expires - TOKEN_SLACK

\* self._expires_at = time.time() + expires_in - 10
\* _token_expires = time.time() + data.get("expires_in", 60)
Stored(impl, token, now, body) ==
    IF impl = "bundle"
    THEN TokenCache(token, now + ExpiresIn(body) - TOKEN_SLACK)
    ELSE TokenCache(token, now + ExpiresIn(body))

\* History: the time a token was stored and the expires_in it came with.
StoredAt(acquired, expires_in) == [acquired |-> acquired, expires_in |-> expires_in]

\* What a call of get_token came to: the decision taken and the token
\* returned (0 when it raised).
TokenResult(decision, token) == [decision |-> decision, token |-> token]
NoTokenResult == TokenResult("", 0)

\* A thread calls get_token and waits for the lock.
TokenCall(c) ==
    /\ tk_pc[c] = "idle"
    /\ tk_calls < MaxCalls
    /\ tk_calls' = tk_calls + 1
    /\ tk_pc' = [tk_pc EXCEPT ![c] = "waiting"]
    /\ tk_result' = [tk_result EXCEPT ![c] = NoTokenResult]
    /\ UNCHANGED <<tk_impl, tk_cache, tk_lock, tk_refreshes, tk_issued, tk_last, tk_pair,
                   tk_stored>>
    /\ UNCHANGED <<evalVars, raceVars, buildVars, replayVars, authorityVars, servedVars, counterVars,
                   sseVars, builderVars, serveVars>>

\* Mutant of TokenAcquire: the cache has no lock.
TokenAcquireNoLock(c) ==
    /\ tk_pc[c] = "waiting"
    /\ tk_lock' = c
    /\ tk_pc' = [tk_pc EXCEPT ![c] = "locked"]
    /\ UNCHANGED <<tk_impl, tk_cache, tk_result, tk_refreshes, tk_issued, tk_last,
                   tk_pair, tk_calls, tk_stored>>
    /\ UNCHANGED <<evalVars, raceVars, buildVars, replayVars, authorityVars, servedVars, counterVars,
                   sseVars, builderVars, serveVars>>

\* with self._lock: / with _token_lock:
TokenAcquire(c) ==
    /\ tk_pc[c] = "waiting"
    /\ tk_lock = "free"
    /\ tk_lock' = c
    /\ tk_pc' = [tk_pc EXCEPT ![c] = "locked"]
    /\ UNCHANGED <<tk_impl, tk_cache, tk_result, tk_refreshes, tk_issued, tk_last,
                   tk_pair, tk_calls, tk_stored>>
    /\ UNCHANGED <<evalVars, raceVars, buildVars, replayVars, authorityVars, servedVars, counterVars,
                   sseVars, builderVars, serveVars>>

\* The test of the cache: return the cached token and leave the with block,
\* or send the request to the identity provider.
TokenCheck(c) ==
    /\ tk_pc[c] = "locked"
    /\ IF CachedValid(tk_impl, tk_cache[tk_impl], clock)
       THEN /\ tk_result' = [tk_result EXCEPT
                                ![c] = TokenResult("cached", tk_cache[tk_impl].token)]
            /\ tk_lock' = "free"
            /\ tk_last' = "cached"
            /\ tk_pc' = [tk_pc EXCEPT ![c] = "idle"]
            /\ UNCHANGED tk_refreshes
       ELSE /\ tk_refreshes' = tk_refreshes + 1
            /\ tk_pc' = [tk_pc EXCEPT ![c] = "refresh"]
            /\ UNCHANGED <<tk_result, tk_lock, tk_last>>
    /\ UNCHANGED <<tk_impl, tk_cache, tk_issued, tk_pair, tk_calls, tk_stored>>
    /\ UNCHANGED <<evalVars, raceVars, buildVars, replayVars, authorityVars, servedVars, counterVars,
                   sseVars, builderVars, serveVars>>

\* The identity provider answers 2xx: the token and its expiry are stored,
\* the new token is returned, the with block is left.
TokenRefreshOk(c) ==
    /\ tk_pc[c] = "refresh"
    /\ \E body \in IdpBodies :
        /\ tk_cache' = [tk_cache EXCEPT
                            ![tk_impl] = Stored(tk_impl, tk_issued + 1, clock, body)]
        /\ tk_stored' = StoredAt(clock, ExpiresIn(body))
    /\ tk_issued' = tk_issued + 1
    /\ tk_result' = [tk_result EXCEPT ![c] = TokenResult("refreshed", tk_issued + 1)]
    /\ tk_lock' = "free"
    /\ tk_last' = "refreshed"
    /\ tk_pc' = [tk_pc EXCEPT ![c] = "idle"]
    /\ UNCHANGED <<tk_impl, tk_refreshes, tk_pair, tk_calls>>
    /\ UNCHANGED <<evalVars, raceVars, buildVars, replayVars, authorityVars, servedVars, counterVars,
                   sseVars, builderVars, serveVars>>

\* Mutant of TokenRefreshFails: the cached token is dropped when the refresh
\* fails.
TokenRefreshFailsClears(c) ==
    /\ tk_pc[c] = "refresh"
    /\ tk_cache' = [tk_cache EXCEPT ![tk_impl] = NoTokenCache]
    /\ tk_result' = [tk_result EXCEPT ![c] = TokenResult("raised", 0)]
    /\ tk_lock' = "free"
    /\ tk_last' = "raised"
    /\ tk_pc' = [tk_pc EXCEPT ![c] = "idle"]
    /\ UNCHANGED <<tk_impl, tk_refreshes, tk_issued, tk_pair, tk_calls, tk_stored>>
    /\ UNCHANGED <<evalVars, raceVars, buildVars, replayVars, authorityVars, servedVars, counterVars,
                   sseVars, builderVars, serveVars>>

\* requests.post or raise_for_status() raises: the exception leaves the with
\* block before any assignment.
TokenRefreshFails(c) ==
    /\ tk_pc[c] = "refresh"
    /\ tk_result' = [tk_result EXCEPT ![c] = TokenResult("raised", 0)]
    /\ tk_lock' = "free"
    /\ tk_last' = "raised"
    /\ tk_pc' = [tk_pc EXCEPT ![c] = "idle"]
    /\ UNCHANGED <<tk_impl, tk_cache, tk_refreshes, tk_issued, tk_pair, tk_calls,
                   tk_stored>>
    /\ UNCHANGED <<evalVars, raceVars, buildVars, replayVars, authorityVars, servedVars, counterVars,
                   sseVars, builderVars, serveVars>>

\* One call of get_token by a single thread: the cache afterwards and what
\* the call came to.  now is the time of the test, later the time after the
\* identity provider answered.
GetToken(impl, cache, now, later, answer, token) ==
    IF CachedValid(impl, cache, now)
    THEN [cache |-> cache, result |-> TokenResult("cached", cache.token)]
    ELSE IF ~ answer.ok
    THEN [cache |-> cache, result |-> TokenResult("raised", 0)]
    ELSE [cache |-> Stored(impl, token, later, answer),
          result |-> TokenResult("refreshed", token)]

\* History of a call made on both caches: the results, the time of the
\* call, whether a token had been stored before it, and when that token
\* came and with which expires_in.
TokenPair(results, now, had, stored) ==
    [results |-> results, now |-> now, had |-> had, stored |-> stored]
NoTokenPair ==
    TokenPair([i \in Impls |-> NoTokenResult], 0, FALSE, StoredAt(0, 0))

\* Both services call their get_token at the same time and get the same
\* answer from the identity provider, d seconds later.
GetTokenBoth ==
    /\ tk_calls < MaxCalls
    /\ tk_calls' = tk_calls + 1
    /\ \E answer \in IdpBodies \cup {IdpError}, d \in {0, 5} :
        LET out == [i \in Impls |->
                        GetToken(i, tk_cache[i], clock, clock + d, answer, tk_issued + 1)]
            fresh == \E i \in Impls : out[i].result.decision = "refreshed"
            asked == \E i \in Impls : out[i].result.decision # "cached"
        IN  /\ tk_cache' = [i \in Impls |-> out[i].cache]
            /\ clock' = IF asked THEN clock + d ELSE clock
            /\ tk_issued' = IF fresh THEN tk_issued + 1 ELSE tk_issued
            /\ tk_refreshes' = IF asked THEN tk_refreshes + 1 ELSE tk_refreshes
            /\ tk_stored' = IF fresh THEN StoredAt(clock + d, ExpiresIn(answer))
                            ELSE tk_stored
            /\ tk_pair' = TokenPair([i \in Impls |-> out[i].result], clock,
                                    tk_issued > 0, tk_stored)
    /\ UNCHANGED <<tk_impl, tk_lock, tk_pc, tk_result, tk_last>>
    /\ UNCHANGED <<npl_data, npl_version, stable>>
    /\ UNCHANGED <<evalVars, raceVars, buildVars, replayVars, servedVars, counterVars,
                   sseVars, builderVars, serveVars>>

\* The token caches before the first call.
TokenIdle ==
    /\ tk_impl = "bundle"
    /\ tk_cache = [i \in Impls |-> NoTokenCache]
    /\ tk_lock = "free"
    /\ tk_pc = [c \in Callers |-> "idle"]
    /\ tk_result = [c \in Callers |-> NoTokenResult]
    /\ tk_refreshes = 0
    /\ tk_issued = 0
    /\ tk_last = ""
    /\ tk_pair = NoTokenPair
    /\ tk_calls = 0
    /\ tk_stored = StoredAt(0, 0)

(***************************************************************************)
(* Bundle server: the replay worker.                                       *)
(***************************************************************************)
\* BACKENDS: the services with a backend URL.
BACKENDS == {"gmail"}

\* Request payloads as stored: JSON text, empty text, text that is not JSON.
ValidPayload == "{\"method\":\"tools/call\"}"
PayloadTexts == {ValidPayload, "", "{bad"}

\* json.loads(request_payload) succeeds.
JsonLoads(text) == text = ValidPayload

Approval(id, service, payload) ==
    [approvalId |-> id, serviceName |-> service, requestPayload |-> payload]
ApprovalsOf(id) ==
    {Approval(id, svc, pl) : svc \in {"gmail", "fax", ""}, pl \in PayloadTexts}

ApprovalIds == <<"a1", "a2", "a3">>

\* The queues the authority can hold at the start: up to MaxQueue approvals
\* with ids of their own; past the first the approvals are replayable or
\* name an unknown service.
RECURSIVE QueuesOfLen(_)
QueuesOfLen(n) ==
    IF n = 0 THEN {<<>>}
    ELSE IF n = 1 THEN {<<a>> : a \in ApprovalsOf(ApprovalIds[1])}
    ELSE {Append(q, a) : q \in QueuesOfLen(n - 1),
                         a \in {Approval(ApprovalIds[n], "gmail", ValidPayload),
                                Approval(ApprovalIds[n], "fax", ValidPayload)}}
Queues == UNION {QueuesOfLen(n) : n \in 0..MaxQueue}

\* The (status, result) pair of execute_replay.
Exec(status, result) == [status |-> status, result |-> result]
NoExec == Exec("", "")

\* Mutant of ExecuteReplayCheck: the payload is not parsed before the
\* backend is contacted.
ExecuteReplayCheckNoParse(approval) ==
    IF approval.serviceName = ""
    THEN Exec("failed", "No serviceName on approval record")
    ELSE IF approval.serviceName \notin BACKENDS
    THEN Exec("failed", "No backend configured for service")
    ELSE IF approval.requestPayload = ""
    THEN Exec("failed", "No requestPayload on approval record")
    ELSE NoExec

\* execute_replay up to the first request: the failure it returns, or NoExec
\* when the backend is to be contacted.
ExecuteReplayCheck(approval) ==
    IF approval.serviceName = ""
    THEN Exec("failed", "No serviceName on approval record")
    ELSE IF approval.serviceName \notin BACKENDS
    THEN Exec("failed", "No backend configured for service")
    ELSE IF approval.requestPayload = ""
    THEN Exec("failed", "No requestPayload on approval record")
    ELSE IF ~ JsonLoads(approval.requestPayload)
    THEN Exec("failed", "Malformed requestPayload")
    ELSE NoExec

\* History: a request to a backend, for the approval at position pos of the
\* fetched list.  at is the number of recordExecution calls the cycle had
\* made before it.
Sent(pos, approval, kind, ok, at) ==
    [pos |-> pos, approval |-> approval, kind |-> kind, ok |-> ok, at |-> at]

\* History: a recordExecution call.  outcome is "ok", "failed" (the authority
\* did not record it) or "lost" (the authority recorded it, the answer did
\* not arrive).
Record(pos, approval, exec, outcome) ==
    [pos |-> pos, approval |-> approval, exec |-> exec, outcome |-> outcome]

\* History of one approval over all cycles: the payload requests sent for
\* it, whether a recordExecution call for it failed, whether the authority
\* recorded its execution.
Hist(payloads, failed, recorded) ==
    [payloads |-> payloads, failed |-> failed, recorded |-> recorded]
NoHist == [id \in SeqRange(ApprovalIds) |-> Hist(0, FALSE, FALSE)]

\* The authority's queue after recordExecution for the approval with this id
\* was processed.
AuthorityRecord(queue, id) == SelectSeq(queue, LAMBDA a : a.approvalId # id)

\* The outcomes of a request to the authority or to a backend: it succeeds
\* or fails, and only succeeds once both are reachable for good.
Reachable(outcomes, good) == IF stable THEN {good} ELSE outcomes

\* Mutant of ReplayWake: the wait has no timeout, a cycle starts on the
\* trigger only (replay_signal.wait(); replay_signal.clear()).
ReplayWakeOnTriggerOnly ==
    /\ rp_pc = "wait"
    /\ replay_signal
    /\ b_pc["main"] = "serving"
    /\ replay_enabled
    /\ rp_cycles < MaxCycles
    /\ rp_cycles' = rp_cycles + 1
    /\ replay_signal' = FALSE
    /\ rp_i' = 0
    /\ rp_pc' = "find"
    /\ rp_sent' = <<>>
    /\ rp_records' = <<>>
    /\ UNCHANGED <<rp_queue, rp_queued, rp_exec, rp_hist>>
    /\ UNCHANGED <<l_pc, sse_connected, last_sse_event_at, last_event_id, backoff,
                   replay_enabled, l_sent, l_since, l_event, l_seen, down_wakes, l_fails>>
    /\ UNCHANGED <<current_sse_event_id, rebuild_signal, triggerVars>>
    /\ UNCHANGED <<evalVars, raceVars, buildVars, tokenVars, authorityVars, servedVars, counterVars,
                   builderVars, serveVars>>

\* replay_signal.wait(timeout=REPLAY_POLL_INTERVAL); replay_signal.clear()
ReplayWake ==
    /\ rp_pc = "wait"
    /\ b_pc["main"] = "serving"
    /\ replay_enabled
    /\ rp_cycles < MaxCycles
    /\ rp_cycles' = rp_cycles + 1
    /\ replay_signal' = FALSE
    /\ rp_i' = 0
    /\ rp_pc' = "find"
    /\ rp_sent' = <<>>
    /\ rp_records' = <<>>
    /\ UNCHANGED <<rp_queue, rp_queued, rp_exec, rp_hist>>
    /\ UNCHANGED <<l_pc, sse_connected, last_sse_event_at, last_event_id, backoff,
                   replay_enabled, l_sent, l_since, l_event, l_seen, down_wakes, l_fails>>
    /\ UNCHANGED <<current_sse_event_id, rebuild_signal, triggerVars>>
    /\ UNCHANGED <<evalVars, raceVars, buildVars, tokenVars, authorityVars, servedVars, counterVars,
                   builderVars, serveVars>>

\* instance_id = find_approval_policy_instance(): found, or None and continue.
ReplayFind ==
    /\ rp_pc = "find"
    /\ \E found \in Reachable(BOOLEAN, TRUE) :
        rp_pc' = IF found THEN "fetch" ELSE "wait"
    /\ UNCHANGED <<rp_queue, rp_queued, rp_i, rp_exec, rp_sent, rp_records, rp_hist,
                   rp_cycles>>
    /\ UNCHANGED <<evalVars, raceVars, buildVars, tokenVars, authorityVars, servedVars, counterVars,
                   sseVars, builderVars, serveVars>>

\* Mutant of ReplayFetchFails: after a failed fetch the loop runs over the
\* list of the cycle before.
ReplayFetchFailsKeepsList ==
    /\ rp_pc = "fetch"
    /\ rp_i' = 1
    /\ rp_pc' = IF rp_queued = <<>> THEN "wait" ELSE "execute"
    /\ UNCHANGED <<rp_queue, rp_queued, rp_exec, rp_sent, rp_records, rp_hist, rp_cycles>>
    /\ UNCHANGED <<evalVars, raceVars, buildVars, tokenVars, authorityVars, servedVars, counterVars,
                   sseVars, builderVars, serveVars>>

\* queued = get_queued_approvals(instance_id) raises: continue.
ReplayFetchFails ==
    /\ rp_pc = "fetch"
    /\ ~ stable
    /\ rp_pc' = "wait"
    /\ UNCHANGED <<rp_queue, rp_queued, rp_i, rp_exec, rp_sent, rp_records, rp_hist,
                   rp_cycles>>
    /\ UNCHANGED <<evalVars, raceVars, buildVars, tokenVars, authorityVars, servedVars, counterVars,
                   sseVars, builderVars, serveVars>>

\* queued = get_queued_approvals(instance_id); if not queued: continue
ReplayFetch ==
    /\ rp_pc = "fetch"
    /\ rp_queued' = rp_queue
    /\ rp_i' = 1
    /\ rp_pc' = IF rp_queue = <<>> THEN "wait" ELSE "execute"
    /\ UNCHANGED <<rp_queue, rp_exec, rp_sent, rp_records, rp_hist, rp_cycles>>
    /\ UNCHANGED <<evalVars, raceVars, buildVars, tokenVars, authorityVars, servedVars, counterVars,
                   sseVars, builderVars, serveVars>>

\* for approval in queued: execute_replay(approval), up to the first request.
ReplayExecute ==
    /\ rp_pc = "execute"
    /\ LET exec == ExecuteReplayCheck(rp_queued[rp_i])
       IN  /\ rp_exec' = exec
           /\ rp_pc' = IF exec = NoExec THEN "initialize" ELSE "record"
    /\ UNCHANGED <<rp_queue, rp_queued, rp_i, rp_sent, rp_records, rp_hist, rp_cycles>>
    /\ UNCHANGED <<evalVars, raceVars, buildVars, tokenVars, authorityVars, servedVars, counterVars,
                   sseVars, builderVars, serveVars>>

\* execute_replay: the initialize request; a failure ends the try block.
ReplayInitialize ==
    /\ rp_pc = "initialize"
    /\ \E ok \in Reachable(BOOLEAN, TRUE) :
        /\ rp_sent' = Append(rp_sent, Sent(rp_i, rp_queued[rp_i],
                                           "initialize", ok, Len(rp_records)))
        /\ IF ok
           THEN rp_pc' = "payload" /\ UNCHANGED rp_exec
           ELSE rp_pc' = "record" /\ rp_exec' = Exec("failed", "initialize error")
    /\ UNCHANGED <<rp_queue, rp_queued, rp_i, rp_records, rp_hist, rp_cycles>>
    /\ UNCHANGED <<evalVars, raceVars, buildVars, tokenVars, authorityVars, servedVars, counterVars,
                   sseVars, builderVars, serveVars>>

\* execute_replay: the stored payload is sent; ("completed", resp.text) or
\* ("failed", str(e)).
ReplayPayload ==
    /\ rp_pc = "payload"
    /\ \E ok \in Reachable(BOOLEAN, TRUE) :
        /\ rp_sent' = Append(rp_sent, Sent(rp_i, rp_queued[rp_i],
                                           "payload", ok, Len(rp_records)))
        /\ rp_exec' = IF ok THEN Exec("completed", "response text")
                      ELSE Exec("failed", "payload error")
    /\ rp_pc' = "record"
    /\ rp_hist' = [rp_hist EXCEPT ![rp_queued[rp_i].approvalId].payloads = @ + 1]
    /\ UNCHANGED <<rp_queue, rp_queued, rp_i, rp_records, rp_cycles>>
    /\ UNCHANGED <<evalVars, raceVars, buildVars, tokenVars, authorityVars, servedVars, counterVars,
                   sseVars, builderVars, serveVars>>

\* Mutant of ReplayRecord: a recordExecution failure ends the cycle.
ReplayRecordStopsOnFailure ==
    /\ rp_pc = "record"
    /\ \E outcome \in {"ok", "failed", "lost"} :
        /\ rp_records' = Append(rp_records,
                                Record(rp_i, rp_queued[rp_i], rp_exec, outcome))
        /\ rp_queue' = IF outcome = "failed" THEN rp_queue
                       ELSE AuthorityRecord(rp_queue, rp_queued[rp_i].approvalId)
        /\ rp_hist' = IF outcome = "failed"
                      THEN [rp_hist EXCEPT ![rp_queued[rp_i].approvalId].failed = TRUE]
                      ELSE [rp_hist EXCEPT ![rp_queued[rp_i].approvalId].recorded = TRUE]
        /\ rp_pc' = IF outcome # "ok" \/ rp_i = Len(rp_queued)
                    THEN "wait" ELSE "execute"
    /\ rp_i' = rp_i + 1
    /\ rp_exec' = NoExec
    /\ UNCHANGED <<rp_queued, rp_sent, rp_cycles>>
    /\ UNCHANGED <<evalVars, raceVars, buildVars, tokenVars, authorityVars, servedVars, counterVars,
                   sseVars, builderVars, serveVars>>

\* record_execution(instance_id, approval_id, exec_status, exec_result) in
\* its try block; then the next approval, or the end of the cycle.
ReplayRecord ==
    /\ rp_pc = "record"
    /\ \E outcome \in Reachable({"ok", "failed", "lost"}, "ok") :
        /\ rp_records' = Append(rp_records,
                                Record(rp_i, rp_queued[rp_i], rp_exec, outcome))
        /\ rp_queue' = IF outcome = "failed" THEN rp_queue
                       ELSE AuthorityRecord(rp_queue, rp_queued[rp_i].approvalId)
        /\ rp_hist' = IF outcome = "failed"
                      THEN [rp_hist EXCEPT ![rp_queued[rp_i].approvalId].failed = TRUE]
                      ELSE [rp_hist EXCEPT ![rp_queued[rp_i].approvalId].recorded = TRUE]
    /\ rp_i' = rp_i + 1
    /\ rp_exec' = NoExec
    /\ rp_pc' = IF rp_i = Len(rp_queued) THEN "wait" ELSE "execute"
    /\ UNCHANGED <<rp_queued, rp_sent, rp_cycles>>
    /\ UNCHANGED <<evalVars, raceVars, buildVars, tokenVars, authorityVars, servedVars, counterVars,
                   sseVars, builderVars, serveVars>>

\* The replay thread is not running and the authority's queue is empty.
ReplayIdle ==
    /\ rp_pc = "off"
    /\ rp_queue = <<>>
    /\ rp_queued = <<>>
    /\ rp_i = 0
    /\ rp_exec = NoExec
    /\ rp_sent = <<>>
    /\ rp_records = <<>>
    /\ rp_hist = NoHist
    /\ rp_cycles = 0

(***************************************************************************)
(* build_bundle on two fetch results.                                      *)
(***************************************************************************)
\* The tokens the token manager hands out: one, and the one after a refresh.
GatewayTokens == {"t1", "t2"}

\* What one rebuild hands to build_bundle and reads while building.
BuildInput(policy_data, sse_event_id, now) ==
    [policy_data |-> policy_data, sse_event_id |-> sse_event_id, now |-> now]
BuildInputs ==
    {BuildInput(PolicyData(d, t), e, n) :
        d \in Data, t \in GatewayTokens, e \in 0..MaxEvents, n \in {0, 100}}

GrantsIdle ==
    /\ g_pc = "off"
    /\ g_policy = NoStoreData
    /\ g_grants = <<>>

BuildIdle ==
    /\ bb_pc = "off"
    /\ bb_in = <<>>
    /\ bb_out = <<>>
    /\ GrantsIdle

\* Two rebuilds, one after the other, each on its own fetch result.
BuildTwice ==
    /\ bb_pc = "call"
    /\ bb_out' = [i \in 1..2 |->
                    build_bundle(bb_in[i].policy_data, bb_in[i].sse_event_id,
                                 bb_in[i].now)]
    /\ bb_pc' = "done"
    /\ UNCHANGED bb_in
    /\ UNCHANGED <<tokenVars, replayVars, raceVars, grantVars>>
    /\ UNCHANGED <<evalVars, authorityVars, servedVars, counterVars, sseVars, builderVars, serveVars>>

\* The state of the bundle server's module before main() runs.
BundleIdle ==
    /\ npl_data = "d1"
    /\ clock = 0
    /\ npl_version = 0
    /\ stable = FALSE
    /\ current_bundle = NoBundle
    /\ current_etag = NoETag
    /\ current_revision = ""
    /\ current_built_at = NoBuiltAt
    /\ current_version = -1
    /\ current_sse_event_id = 0
    /\ rebuild_count = 0
    /\ rebuild_error_count = 0
    /\ data_ready = FALSE
    /\ rebuild_signal = FALSE
    /\ n_ok = 0
    /\ n_failed = 0
    /\ ev_version = 0
    /\ uncovered = FALSE
    /\ n_worker = 0
    /\ n_inside = 0
    /\ w_trigger = 0
    /\ b_pc = [t \in BuildThreads |-> "unstarted"]
    /\ b_policy = [t \in BuildThreads |-> NoPolicy]
    /\ b_built = [t \in BuildThreads |-> NoBuilt]
    /\ b_tmp = [t \in BuildThreads |-> 0]
    /\ b_version = [t \in BuildThreads |-> 0]
    /\ b_fetch_id = [t \in BuildThreads |-> 0]
    /\ swap_seen = 0
    /\ cycles = 0
    /\ s_pc = "idle"
    /\ s_if_none_match = NoHeader
    /\ s_bundle = NoBundle
    /\ s_etag = NoETag
    /\ s_response = NoHttpResponse
    /\ hl_locals = NoHealthLocals
    /\ hl_response = NoHealthResponse
    /\ ListenerStart
    /\ replay_enabled = FALSE
    /\ ReplayIdle

(***************************************************************************)
(* Specifications.                                                         *)
(***************************************************************************)
ConstraintsIdle ==
    /\ ec_pc = "off"
    /\ ec_config = NoToolConfig
    /\ ec_arguments = <<>>
    /\ ec_result = NoResult

\* evaluate_constraints on every drawn input.
InitConstraints ==
    /\ ec_pc = "call"
    /\ ec_config \in {ToolConfig("send", "false", cs) :
                          cs \in SeqsUpTo(ConstraintSet, MaxConstraints)}
    /\ ec_arguments \in ArgumentMaps
    /\ ec_result = NoResult
    /\ config_cache = <<>>
    /\ refreshed = FALSE
    /\ RefreshIdle
    /\ HandlerIdle
    /\ BundleIdle
    /\ BuildIdle
    /\ TokenIdle

EvaluateConstraints ==
    /\ ec_pc = "call"
    /\ ec_result' = evaluate_constraints(ec_config, ec_arguments)
    /\ ec_pc' = "done"
    /\ UNCHANGED <<ec_config, ec_arguments>>
    /\ UNCHANGED <<cacheVars, refreshVars, handlerVars, bundleVars>>

NextConstraints == EvaluateConstraints

SpecConstraints == InitConstraints /\ [][NextConstraints]_vars

\* The evaluator service: main() starts with an empty cache; the refresher
\* and a handler thread interleave.
InitEval ==
    /\ ConstraintsIdle
    /\ config_cache = <<>>
    /\ refreshed = FALSE
    /\ RefreshIdle
    /\ HandlerIdle
    /\ BundleIdle
    /\ BuildIdle
    /\ TokenIdle

NextEval == RefreshCache \/ RefreshFails \/ Lookup \/ Evaluate \/ Forward \/ Finish

SpecEval == InitEval /\ [][NextEval]_vars

\* One refresh_cache run on every drawn set of authority answers, over an
\* empty cache or over an earlier snapshot.
InitRefresh ==
    /\ ConstraintsIdle
    /\ config_cache \in {<<>>, BuildSnapshot(<<Item("g1", "gmail"), Item("s1", "slack")>>,
                                             <<FetchOk(<<TC_auto>>), FetchOk(<<>>)>>)}
    /\ refreshed = (config_cache # <<>>)
    /\ r_pc = "start"
    /\ \E inp \in RefreshInputs : r_items = inp.items /\ r_outcomes = inp.outcomes
    /\ HandlerIdle
    /\ BundleIdle
    /\ BuildIdle
    /\ TokenIdle

NextRefresh == RefreshOnce

SpecRefresh == InitRefresh /\ [][NextRefresh]_vars

\* The snapshot published before the refresh under study.
EarlierSnapshot ==
    BuildSnapshot(<<Item("g1", "gmail"), Item("s1", "slack")>>,
                  <<FetchOk(<<TC_auto>>), FetchOk(<<>>)>>)

\* One refresh_cache run over an earlier snapshot, interleaved with one
\* handler thread.
InitSnapshot ==
    /\ ConstraintsIdle
    /\ config_cache = EarlierSnapshot
    /\ refreshed = TRUE
    /\ r_pc = "start"
    /\ \E inp \in RefreshInputs :
        /\ Len(inp.items) < MaxItems
        /\ r_items = inp.items
        /\ r_outcomes = inp.outcomes
    /\ HandlerIdle
    /\ BundleIdle
    /\ BuildIdle
    /\ TokenIdle

NextSnapshot == RefreshOnce \/ Lookup \/ Evaluate \/ Forward \/ Finish

SpecSnapshot == InitSnapshot /\ [][NextSnapshot]_vars

\* cache_loop: refresh after refresh, each one succeeding or failing as a
\* whole; the sleep always ends.
NextCacheLoop == RefreshOnce \/ RefreshOnceFails \/ CacheLoopSleep

SpecCacheLoop ==
    InitSnapshot /\ [][NextCacheLoop]_vars /\ WF_vars(CacheLoopSleep)

\* The bundle server when main() starts its initial rebuild; the threads
\* are started when it returns.
ServerStart ==
    /\ ConstraintsIdle
    /\ config_cache = <<>>
    /\ refreshed = FALSE
    /\ RefreshIdle
    /\ HandlerIdle
    /\ BuildIdle
    /\ npl_data = "d1"
    /\ clock = 0
    /\ npl_version = 0
    /\ stable = FALSE
    /\ current_bundle = NoBundle
    /\ current_etag = NoETag
    /\ current_revision = ""
    /\ current_built_at = NoBuiltAt
    /\ current_version = -1
    /\ current_sse_event_id = 0
    /\ rebuild_count = 0
    /\ rebuild_error_count = 0
    /\ data_ready = FALSE
    /\ rebuild_signal = FALSE
    /\ n_ok = 0
    /\ n_failed = 0
    /\ ev_version = 0
    /\ uncovered = FALSE
    /\ n_worker = 0
    /\ n_inside = 0
    /\ w_trigger = 0
    /\ b_pc = [t \in BuildThreads |-> IF t = "main" THEN "fetch" ELSE "unstarted"]
    /\ b_policy = [t \in BuildThreads |-> NoPolicy]
    /\ b_built = [t \in BuildThreads |-> NoBuilt]
    /\ b_tmp = [t \in BuildThreads |-> 0]
    /\ b_version = [t \in BuildThreads |-> 0]
    /\ b_fetch_id = [t \in BuildThreads |-> 0]
    /\ swap_seen = 0
    /\ cycles = 0
    /\ s_pc = "idle"
    /\ s_if_none_match = NoHeader
    /\ s_bundle = NoBundle
    /\ s_etag = NoETag
    /\ s_response = NoHttpResponse
    /\ hl_locals = NoHealthLocals
    /\ hl_response = NoHealthResponse
    /\ ListenerStart
    /\ TokenIdle

\* The bundle server: main() runs the initial rebuild, then the worker, the
\* reconciler, the event listener and the HTTP server run side by side.
\* Replay is off (the default of REPLAY_ENABLED).
InitBundle ==
    /\ ServerStart
    /\ replay_enabled = FALSE
    /\ ReplayIdle

Rebuild == \E t \in BuildThreads : RebuildStep(t)

\* The bundle server as its clients see it: main() runs the initial rebuild,
\* then the reconciler rebuilds while the HTTP server answers requests.
NextBundle ==
    \/ Rebuild
    \/ ReconcilerWake
    \/ AuthorityChange
    \/ ServeRead \/ ServeRespond \/ ServeHealthAge \/ ServeHealthRespond
    \/ ServeFinish

SpecBundle == InitBundle /\ [][NextBundle]_vars

\* The rebuild threads: after main()'s initial rebuild the event listener,
\* the rebuild worker and the reconciler run side by side.
NextRebuild ==
    \/ Rebuild
    \/ WorkerWake \/ WorkerDebounced \/ ReconcilerWake
    \/ SseConnect \/ StateEvent \/ AuthorityChange

SpecRebuild == InitBundle /\ [][NextRebuild]_vars

\* The same threads, with the history of fetches and publications recorded.
NextRace ==
    \/ RebuildObserved
    \/ WorkerWake \/ WorkerDebounced \/ ReconcilerWake
    \/ SseConnect \/ StateEvent \/ AuthorityChange

SpecRace == InitBundle /\ [][NextRace]_vars

\* The event path alone: the listener and the rebuild worker, which the
\* scheduler lets run whenever it can take a step.
WorkerStep == WorkerWake \/ WorkerDebounced \/ RebuildStep("worker")

NextWorker ==
    \/ RebuildStep("main") \/ WorkerStep
    \/ SseConnect \/ StateEvent \/ AuthorityChange

SpecWorker == InitBundle /\ [][NextWorker]_vars /\ WF_vars(WorkerStep)

\* The reconciler alone, with no event delivered: main() and the reconciler
\* thread run whenever they can take a step; at some point the authority may
\* become reachable and unchanging for good.
ReconcilerStep == ReconcilerWake \/ RebuildStep("reconciler")

NextReconcile ==
    \/ RebuildStep("main") \/ ReconcilerStep
    \/ AuthorityChange \/ Stabilise

SpecReconcile ==
    InitBundle /\ [][NextReconcile]_vars
        /\ WF_vars(RebuildStep("main")) /\ WF_vars(ReconcilerStep)

\* build_bundle on every drawn pair of fetch results.
InitBuild ==
    /\ ConstraintsIdle
    /\ config_cache = <<>>
    /\ refreshed = FALSE
    /\ RefreshIdle
    /\ HandlerIdle
    /\ BundleIdle
    /\ TokenIdle
    /\ bb_pc = "call"
    /\ bb_in \in [1..2 -> BuildInputs]
    /\ bb_out = <<>>
    /\ GrantsIdle

NextBuild == BuildTwice

SpecBuild == InitBuild /\ [][NextBuild]_vars

\* fetch_npl_data on every drawn getPolicyData answer.
InitGrants ==
    /\ ConstraintsIdle
    /\ config_cache = <<>>
    /\ refreshed = FALSE
    /\ RefreshIdle
    /\ HandlerIdle
    /\ BundleIdle
    /\ TokenIdle
    /\ bb_pc = "off"
    /\ bb_in = <<>>
    /\ bb_out = <<>>
    /\ g_pc = "call"
    /\ g_policy \in StoreAnswers
    /\ g_grants = <<>>

NextGrants == FetchTransform

SpecGrants == InitGrants /\ [][NextGrants]_vars

\* GET /health while the event listener connects, loses its connection and
\* backs off, and the reconciler rebuilds.
NextHealth ==
    \/ RebuildStep("main") \/ ReconcilerStep
    \/ SseConnect \/ SseConnectFails \/ SseStreamRaises \/ SseStreamEnds
    \/ BackoffSlept
    \/ ServeHealthAge \/ ServeHealthRespond \/ ServeFinish

SpecHealth == InitBundle /\ [][NextHealth]_vars

\* The event listener alone, with replay on or off: connections, events of
\* every type, with and without ids, and the clock.
InitListener ==
    /\ ServerStart
    /\ replay_enabled \in BOOLEAN
    /\ ReplayIdle

NextListener ==
    \/ RebuildStep("main")
    \/ SseConnect \/ SseConnectFails \/ SseStreamRaises \/ SseStreamEnds
    \/ BackoffSlept
    \/ StateEvent \/ StateEventNoId \/ TickEvent \/ OtherEvent
    \/ Tick

SpecListener == InitListener /\ [][NextListener]_vars

\* One token cache, the bundle server's or the evaluator's, called by two
\* threads while time passes.
InitToken ==
    /\ ConstraintsIdle
    /\ config_cache = <<>>
    /\ refreshed = FALSE
    /\ RefreshIdle
    /\ HandlerIdle
    /\ BundleIdle
    /\ BuildIdle
    /\ tk_impl \in Impls
    /\ tk_cache = [i \in Impls |-> NoTokenCache]
    /\ tk_lock = "free"
    /\ tk_pc = [c \in Callers |-> "idle"]
    /\ tk_result = [c \in Callers |-> NoTokenResult]
    /\ tk_refreshes = 0
    /\ tk_issued = 0
    /\ tk_last = ""
    /\ tk_pair = NoTokenPair
    /\ tk_calls = 0
    /\ tk_stored = StoredAt(0, 0)

TokenStep(c) ==
    \/ TokenCall(c) \/ TokenAcquire(c) \/ TokenCheck(c)
    \/ TokenRefreshOk(c) \/ TokenRefreshFails(c)

NextToken == (\E c \in Callers : TokenStep(c)) \/ Tick

SpecToken == InitToken /\ [][NextToken]_vars

\* Both token caches, called one call at a time at the same moments and
\* given the same answers by the identity provider.
InitTokenPair ==
    /\ ConstraintsIdle
    /\ config_cache = <<>>
    /\ refreshed = FALSE
    /\ RefreshIdle
    /\ HandlerIdle
    /\ BundleIdle
    /\ BuildIdle
    /\ TokenIdle

NextTokenPair == GetTokenBoth \/ Tick

SpecTokenPair == InitTokenPair /\ [][NextTokenPair]_vars

\* The replay worker, with replay on, over every drawn queue of the
\* authority.
InitReplay ==
    /\ ServerStart
    /\ replay_enabled = TRUE
    /\ rp_pc = "wait"
    /\ rp_queue \in Queues
    /\ rp_queued = <<>>
    /\ rp_i = 0
    /\ rp_exec = NoExec
    /\ rp_sent = <<>>
    /\ rp_records = <<>>
    /\ rp_hist = NoHist
    /\ rp_cycles = 0

NextReplay ==
    \/ RebuildStep("main")
    \/ ReplayWake \/ ReplayFind \/ ReplayFetch \/ ReplayFetchFails
    \/ ReplayExecute \/ ReplayInitialize \/ ReplayPayload \/ ReplayRecord

SpecReplay == InitReplay /\ [][NextReplay]_vars

\* The replay worker next to the event listener, with the authority and the
\* backends becoming reachable for good at some point.  The worker's steps
\* are fair: its wait ends by the trigger or by the poll timeout, and its
\* requests have timeouts.  No fairness is asked of the events.
ReplayStep ==
    \/ ReplayWake \/ ReplayFind \/ ReplayFetch \/ ReplayFetchFails
    \/ ReplayExecute \/ ReplayInitialize \/ ReplayPayload \/ ReplayRecord

NextReplayLive ==
    \/ RebuildStep("main")
    \/ ReplayStep
    \/ SseConnect \/ StateEventNoId
    \/ Stabilise

InitReplayLive == InitReplay /\ Len(rp_queue) < MaxQueue

SpecReplayLive ==
    InitReplayLive /\ [][NextReplayLive]_vars
        /\ WF_vars(RebuildStep("main")) /\ WF_vars(ReplayStep)

(***************************************************************************)
(* Claims about POST /evaluate (checked under SpecEval).                   *)
(***************************************************************************)
\* The tool config and the arguments the handler works on: the config found
\* in the entry it read from the cache, and the arguments as parsed (text
\* that is not JSON is evaluated as the empty mapping).
ReqToolConfig == ToolConfigGet(h_svc_entry, h_body.toolName)
ReqArguments == ParseArguments(h_body.arguments)

\* Every constraint of the config passed against the arguments: none has a
\* present argument that fails its operator test.
ConstraintsPassed ==
    \/ ReqToolConfig.constraints = <<>>
    \/ /\ ReqArguments.kind = "object"
       /\ ViolatedPositions(ReqToolConfig.constraints, ReqArguments.map) = {}

ConstraintViolated ==
    /\ ReqArguments.kind = "object"
    /\ ViolatedPositions(ReqToolConfig.constraints, ReqArguments.map) # {}

\* C1: the answer is allow only if (a) the tool config the handler read from
\* the cache has requiresApproval = false and all its constraints passed
\* against the request's arguments, or (b) the authority answered allow to
\* the forward of this request; whatever refreshes interleave.
C1_AllowOnlyWhenJustified ==
    h_response.decision = "allow" =>
        \/ /\ ReqToolConfig # NoToolConfig
           /\ ReqToolConfig.requiresApproval = "false"
           /\ ConstraintsPassed
           /\ h_forwards = 0
        \/ /\ h_forwards = 1
           /\ h_npl.kind = "ok"
           /\ h_npl.response.decision = "allow"

\* Witness of C1: a local allow, answered after a refresh has already removed
\* the service from the cache.
C1_Witness ==
    /\ h_pc = "done"
    /\ h_response.decision = "allow"
    /\ h_forwards = 0
    /\ ReqToolConfig = TC_auto
    /\ h_body.serviceName \notin DOMAIN config_cache

\* C2 (as claimed): a request whose arguments text is not valid JSON is
\* answered deny, whatever the cached config of the addressed tool.
C2_MalformedArgumentsDenied ==
    (/\ h_pc = "done"
     /\ h_body.serviceName # ""
     /\ h_body.arguments = ArgsMalformed
     /\ ReqToolConfig # NoToolConfig)
        => h_response.decision = "deny"

\* C3: a request whose serviceName was no key of the cache when the handler
\* looked it up is answered deny, with empty requestId and the message
\* "No governance instance for service '<name>'", and nothing is forwarded;
\* the cache is empty until a refresh has succeeded, so until then every
\* request is answered that way.
C3_UnknownServiceDenied ==
    /\ (~ refreshed) => DOMAIN config_cache = {}
    /\ (/\ h_pc = "done"
        /\ h_body.serviceName # ""
        /\ h_svc_entry = NoEntry)
           => /\ h_response = Decision("deny", "", MsgNoInstance(h_body.serviceName))
              /\ h_forwards = 0
              /\ h_npl = NoForward

\* Witness of C3: the deny of a request looked up before the refresh that
\* brought its service into the cache.
C3_Witness ==
    /\ h_pc = "done"
    /\ h_body.serviceName = "gmail"
    /\ h_svc_entry = NoEntry
    /\ h_response = Decision("deny", "", MsgNoInstance("gmail"))
    /\ "gmail" \in DOMAIN config_cache

\* C4: a forward that fails is answered deny, with empty requestId and a
\* message beginning "Governance evaluation failed:", on both forwarding
\* paths.
C4_FailedForwardDenied ==
    (h_pc = "done" /\ h_npl.kind = "error") =>
        /\ h_forwards = 1
        /\ h_response = Decision("deny", "", MsgForwardFailed(h_npl.err))

\* Witness of C4: the forward of a request whose constraints passed and
\* whose tool requires approval timed out.
C4_Witness ==
    /\ h_pc = "done"
    /\ ReqToolConfig = TC_approval
    /\ ConstraintsPassed
    /\ h_body.arguments = ArgsObject("to" :> StrV(T_ac))
    /\ h_npl = ForwardError("timeout")
    /\ h_response.decision = "deny"

\* The request is one the handler forwards: the service is cached, and the
\* tool has no cached config or its constraints pass and requiresApproval
\* is not false.
ForwardCase ==
    /\ h_svc_entry # NoEntry
    /\ \/ ReqToolConfig = NoToolConfig
       \/ ConstraintsPassed /\ ReqToolConfig.requiresApproval # "false"

\* C6: the authority's evaluate action is called once exactly for the
\* requests of ForwardCase and never otherwise, and an answer of the
\* authority is returned as it is.
C6_ForwardExactlyWhenNeeded ==
    (h_pc = "done" /\ h_body.serviceName # "") =>
        /\ h_forwards \in {0, 1}
        /\ (h_forwards = 1) <=> ForwardCase
        /\ h_npl.kind = "ok" => h_response = h_npl.response

\* Witness of C6: a tool without cached config, forwarded once, the
\* authority's pending answer (with its requestId) returned.
C6_Witness ==
    /\ h_pc = "done"
    /\ h_svc_entry # NoEntry
    /\ ReqToolConfig = NoToolConfig
    /\ h_forwards = 1
    /\ h_npl.kind = "ok"
    /\ h_response = Decision("pending", "r2", MsgAuthority("awaiting approval"))

\* C7: the local decisions (unknown service, violated constraint, auto-allow
\* of a requiresApproval=false tool whose constraints pass) are answered
\* without a call to the authority and with an empty requestId.
C7_LocalDecisionsStayLocal ==
    (h_pc = "done" /\ h_body.serviceName # "") =>
        /\ h_svc_entry = NoEntry =>
              h_forwards = 0 /\ h_response.decision = "deny"
                             /\ h_response.requestId = ""
        /\ (ReqToolConfig # NoToolConfig /\ ConstraintViolated) =>
              h_forwards = 0 /\ h_response.decision = "deny"
                             /\ h_response.requestId = ""
        /\ (/\ ReqToolConfig # NoToolConfig
            /\ ConstraintsPassed
            /\ ReqToolConfig.requiresApproval = "false") =>
              h_forwards = 0 /\ h_response = Decision("allow", "", MsgSatisfied)

\* Witness of C7: the auto-allow of a request whose argument satisfies the
\* constraint of a requiresApproval=false tool.
C7_Witness ==
    /\ h_pc = "done"
    /\ ReqToolConfig = TC_auto
    /\ h_body.arguments = ArgsObject("to" :> StrV(T_ac))
    /\ h_response = Decision("allow", "", MsgSatisfied)
    /\ h_forwards = 0
    /\ h_npl = NoForward

(***************************************************************************)
(* Claims about refresh_cache (checked under SpecRefresh).                 *)
(***************************************************************************)
\* The positions of the discovered items the loop does not pass over.
UsableItems == {i \in 1..Len(r_items) : r_items[i].serviceName # "" /\ r_items[i].id # ""}

\* The item that decides the entry of its service: the last usable one.
DecidingItems ==
    {i \in UsableItems :
        \A j \in UsableItems : r_items[j].serviceName = r_items[i].serviceName => j <= i}

\* C8 (as claimed): a service whose getToolConfigs call failed is not in the
\* new snapshot, and every other discovered service is cached with its
\* instance and its tool configs.
C8_FailedFetchDropsService ==
    r_pc = "done" =>
        \A i \in DecidingItems :
            IF r_outcomes[i].kind # "ok"
            THEN r_items[i].serviceName \notin DOMAIN config_cache
            ELSE /\ r_items[i].serviceName \in DOMAIN config_cache
                 /\ config_cache[r_items[i].serviceName] =
                        [instanceId |-> r_items[i].id,
                         toolConfigs |-> FetchToolConfigs(r_outcomes[i])]

(***************************************************************************)
(* Claims about GET /bundles/mcp/data.tar.gz (checked under SpecBundle).   *)
(***************************************************************************)
\* C9: in every 200 answer the ETag header is the double-quoted revision
\* recorded in the manifest of the body, and that revision is the one of the
\* policy data in the body: bytes and ETag are of one build, whatever
\* rebuilds interleave with the request.
C9_ETagOfServedBytes ==
    s_response.status = 200 =>
        /\ s_response.body # NoBundle
        /\ s_response.etag = ETagOf(s_response.body.manifest.revision)
        /\ s_response.body.manifest.revision =
               Revision(s_response.body.data_json.policy)
        /\ s_response.body.data_json.bundle_metadata.revision =
               s_response.body.manifest.revision

\* Witness of C9: a 200 answer given after a rebuild has already swapped in
\* a bundle of another revision.
C9_Witness ==
    /\ s_pc = "done"
    /\ s_response.status = 200
    /\ s_response.etag = ETagOf(s_response.body.manifest.revision)
    /\ current_bundle # NoBundle
    /\ current_etag # s_response.etag

\* C10: when a bundle is served, the answer is 304 with the ETag header and
\* no body exactly for a request whose If-None-Match is string-equal to the
\* ETag read with the bundle, and 200 with that bundle and that ETag for
\* every other header value and for no header.
C10_ConditionalGet ==
    (s_pc = "done" /\ s_bundle # NoBundle) =>
        IF s_if_none_match.present /\ s_if_none_match.value = s_etag
        THEN s_response = HttpResponse(304, s_etag, NoBundle)
        ELSE s_response = HttpResponse(200, s_etag, s_bundle)

\* Witness of C10: a 304 to a request that carries the ETag of the served
\* bundle.
C10_Witness ==
    /\ s_pc = "done"
    /\ s_bundle # NoBundle
    /\ s_if_none_match = Header(s_etag)
    /\ s_response.status = 304
    /\ s_response.body = NoBundle

\* C11: GET /bundles/mcp/data.tar.gz is answered 503 exactly when the bundle
\* the handler read was absent, whatever If-None-Match it carries; the served
\* bundle is absent exactly while no rebuild has got as far as its swap, and
\* once a rebuild has succeeded it is never absent again, whatever rebuilds
\* fail afterwards.
C11_NotReadyUntilFirstBuild ==
    /\ s_pc = "done" =>
          /\ (s_response.status = 503) <=> (s_bundle = NoBundle)
          /\ s_bundle = NoBundle => s_response = HttpResponse(503, NoETag, NoBundle)
    /\ (current_bundle = NoBundle) <=>
          /\ n_ok = 0
          /\ \A t \in BuildThreads : b_pc[t] \notin {"count_load", "count_store"}
    /\ (n_ok > 0 \/ rebuild_count > 0 \/ data_ready) => current_bundle # NoBundle
    /\ (s_pc \in {"read", "done"} /\ s_bundle # NoBundle) => current_bundle # NoBundle

\* Witness of C11: after a failed initial rebuild, a request that carries
\* the ETag of the bundle to come is answered 503.
C11_Witness ==
    /\ s_pc = "done"
    /\ s_if_none_match = Header(ETagOf(Revision(PolicyData("d1", "t1"))))
    /\ s_response = HttpResponse(503, NoETag, NoBundle)
    /\ n_failed = 1
    /\ n_ok = 0

(***************************************************************************)
(* Claims about GET /health (checked under SpecBundle).                    *)
(***************************************************************************)
\* C20 (as claimed): the status is initializing (503) exactly when no bundle
\* has been built, degraded (200) when the bundle's age, now - built_at,
\* exceeds the staleness threshold, and healthy (200) otherwise.
C20_HealthStatus ==
    s_pc = "health_done" =>
        LET built == hl_locals.built_at # NoBuiltAt
            age == hl_locals.now - hl_locals.built_at
            status == IF ~ built THEN "initializing"
                      ELSE IF age > STALENESS_THRESHOLD * 100 THEN "degraded"
                      ELSE "healthy"
        IN  /\ hl_response.status = status
            /\ hl_response.http_status = IF status = "initializing" THEN 503 ELSE 200

(***************************************************************************)
(* Claims about build_bundle (checked under SpecBuild).                    *)
(***************************************************************************)
\* C13 (as claimed): two rebuilds on identical authority data publish the
\* identical revision and ETag, whatever the time, the event id and the
\* gateway token of each.
C13_RevisionOfDataAlone ==
    (bb_pc = "done" /\ bb_in[1].policy_data.data = bb_in[2].policy_data.data) =>
        /\ bb_out[1].revision = bb_out[2].revision
        /\ bb_out[1].etag = bb_out[2].etag

(***************************************************************************)
(* Claims about the rebuild threads (checked under SpecRebuild).           *)
(***************************************************************************)
\* A thread is inside rebuild().
InRebuild(t) ==
    b_pc[t] \in {"fetch", "build", "swap", "count_load", "count_store",
                 "error_load", "error_store"}

\* C12 (as claimed): the step that ends a failed rebuild cycle leaves the
\* served bytes, ETag, revision and built-at time as they were, raises
\* rebuild_error_count by one and leaves rebuild_count alone.
C12_FailedCycleKeepsLastGood ==
    [][\A t \in BuildThreads :
          (b_pc[t] = "error_store" /\ b_pc'[t] # "error_store") =>
              /\ servedVars' = servedVars
              /\ rebuild_error_count' = rebuild_error_count + 1
              /\ rebuild_count' = rebuild_count]_vars

\* The authority's data after v changes (it starts as d1 and alternates).
DataAt(v) == IF v % 2 = 0 THEN "d1" ELSE "d2"

\* C14: when the rebuild worker has published a bundle, the policy data in
\* it is the authority's data of a version at least that of every state
\* event observed before the cycle's fetch.
C14_EventRebuildFetchedAfterEvent ==
    /\ npl_data = DataAt(npl_version)
    /\ b_pc["worker"] \in {"count_load", "count_store"} =>
          /\ b_version["worker"] >= w_trigger
          /\ b_policy["worker"].data = DataAt(b_version["worker"])
          /\ b_built["worker"].bundle_bytes.data_json.policy = b_policy["worker"]

\* Witness of C14: the worker has published the data the authority changed
\* to before the event.
C14_Witness ==
    /\ b_pc["worker"] = "count_load"
    /\ w_trigger = 1
    /\ b_version["worker"] = 1
    /\ current_bundle = b_built["worker"].bundle_bytes
    /\ current_bundle.data_json.policy.data = "d2"

\* C17 (as claimed): at most one thread is inside rebuild() at any time and
\* the reconciler never is.
C17_WorkerSoleWriter ==
    /\ Cardinality({t \in BuildThreads : InRebuild(t)}) <= 1
    /\ ~ InRebuild("reconciler")

\* C19 (as claimed): rebuild_count is the number of rebuild cycles that
\* returned successfully and rebuild_error_count the number that failed
\* (both numbers only grow).
C19_CountersCountCycles ==
    /\ rebuild_count = n_ok
    /\ rebuild_error_count = n_failed

(***************************************************************************)
(* Claims about the rebuild trigger (checked under SpecWorker).            *)
(***************************************************************************)
\* C15: an observed state event that no worker fetch has followed yet is
\* never forgotten (the signal is latched, or the worker is between its
\* wake-up and the fetch of this cycle), and a worker fetch does follow it.
C15_NoTriggerLost ==
    /\ [](uncovered => (rebuild_signal \/ b_pc["worker"] \in {"debounce", "fetch"}))
    /\ (uncovered ~> ~ uncovered)

\* Witness of C15: an event observed during the debounce sleep, its signal
\* drained by the second clear, is answered by the fetch about to start.
C15_Witness ==
    /\ uncovered
    /\ ~ rebuild_signal
    /\ n_inside = 1
    /\ b_pc["worker"] = "fetch"
    /\ n_worker = 1

\* C16: every worker cycle is owed to an event observed outside a debounce
\* window; the events observed between a wake-up and the end of its debounce
\* sleep start no cycle of their own.
C16_BurstIsOneRebuild ==
    n_worker <= current_sse_event_id - n_inside

\* Witness of C16: two events, the second during the debounce sleep of the
\* cycle the first started; that cycle is over and the worker waits again.
C16_Witness ==
    /\ current_sse_event_id = 2
    /\ n_inside = 1
    /\ n_worker = 1
    /\ b_pc["worker"] = "wait"
    /\ ~ rebuild_signal
    /\ n_ok + n_failed = 2

(***************************************************************************)
(* Claims about the reconciler (checked under SpecReconcile).              *)
(***************************************************************************)
\* The served bundle holds the authority's current data.
ServedCurrent ==
    /\ current_bundle # NoBundle
    /\ current_bundle.data_json.policy.data = npl_data
    /\ current_revision = Revision(current_bundle.data_json.policy)

\* C18: with no event delivered, once the authority is reachable and
\* unchanging for good the served bundle comes to hold its current data and
\* keeps holding it.
C18_EventuallyConsistent == stable ~> [] ServedCurrent

\* Witness of C18: consistency reached after a failed initial rebuild and a
\* change of the authority's data.
C18_Witness ==
    /\ stable
    /\ ServedCurrent
    /\ n_failed >= 1
    /\ npl_version = 1
    /\ b_pc["reconciler"] = "sleep"

(***************************************************************************)
(* Claims about GET /health and the event stream (checked under            *)
(* SpecHealth).                                                            *)
(***************************************************************************)
\* The event stream has been closed since before the reconciler's last two
\* wake-ups, that is, across a full reconciliation interval.
StreamDownAcrossInterval == l_pc # "streaming" /\ down_wakes >= 2

\* C21: a GET /health answered when the first rebuild is done and the event
\* stream has been disconnected across a full reconciliation interval says
\* "degraded", whatever the age of the bundle.
C21_DegradedWhenStreamDown ==
    [][(s_pc = "health" /\ s_pc' = "health_done" /\ data_ready
            /\ StreamDownAcrossInterval)
        => hl_response'.status = "degraded"]_vars

(***************************************************************************)
(* Claims about the token caches (checked under SpecToken and              *)
(* SpecTokenPair).                                                         *)
(***************************************************************************)
\* The token stored last is inside its validity window at this time: more
\* than 10 seconds before acquisition time + expires_in.
InsideWindow(stored, had, now) ==
    had /\ now < stored.acquired + stored.expires_in - 10

InFlight == {c \in Callers : tk_pc[c] = "refresh"}
InSection == {c \in Callers : tk_pc[c] \in {"locked", "refresh"}}

\* C22: at most one request to the identity provider is in flight, the
\* other callers wait outside the locked section; a caller that enters the
\* section while the stored token is inside its validity window leaves with
\* that token and sends no request.
C22_OneRefreshInFlight ==
    /\ [](Cardinality(InFlight) <= 1 /\ Cardinality(InSection) <= 1)
    /\ [][\A c \in Callers :
            (tk_pc[c] = "locked" /\ tk_pc'[c] # "locked"
                /\ InsideWindow(tk_stored, tk_issued > 0, clock))
            => /\ tk_result'[c] = TokenResult("cached", tk_issued)
               /\ tk_refreshes' = tk_refreshes
               /\ tk_pc'[c] = "idle"]_vars

\* Witness of C22: both threads called; one refreshed, the other waited and
\* returned the same token; one request was sent.
C22_Witness ==
    /\ tk_result["c1"] = TokenResult("refreshed", 1)
    /\ tk_result["c2"] = TokenResult("cached", 1)
    /\ tk_refreshes = 1
    /\ tk_calls = 2
    /\ clock = 0

\* C23: both caches come to the same result on every call; the result is
\* the cached token exactly when a token is stored and the time of the call
\* is more than 10 seconds before its expiry, otherwise one refresh that
\* returns the new token or raises.
C23_SameDecision ==
    LET b == tk_pair.results["bundle"]
        e == tk_pair.results["evaluator"]
    IN  tk_calls > 0 /\ b.decision # "" =>
            /\ b = e
            /\ b.decision = "cached"
                   <=> InsideWindow(tk_pair.stored, tk_pair.had, tk_pair.now)
            /\ b.decision = "cached" => b.token = tk_issued
            /\ b.decision = "refreshed" => b.token = tk_issued /\ tk_stored.acquired >= tk_pair.now
            /\ b.decision \in {"cached", "refreshed", "raised"}
            /\ tk_cache["bundle"].token = tk_cache["evaluator"].token

\* Witness of C23: a call made exactly 10 seconds before the expiry of the
\* stored token refreshes.
C23_Witness ==
    /\ tk_pair.had
    /\ tk_pair.now = tk_pair.stored.acquired + tk_pair.stored.expires_in - 10
    /\ tk_pair.results["bundle"].decision = "refreshed"
    /\ tk_pair.results["evaluator"].decision = "refreshed"
    /\ tk_issued = 2

\* C24: a refresh that fails raises to its caller, frees the lock and leaves
\* the cache as it was; while the latest call is one that raised, the stored
\* token is outside its validity window, so the next call refreshes.
C24_FailedRefreshLeavesCache ==
    /\ [][\A c \in Callers :
            (tk_pc[c] = "refresh" /\ tk_result'[c].decision = "raised")
            => /\ tk_cache' = tk_cache
               /\ tk_lock' = "free"
               /\ tk_pc'[c] = "idle"]_vars
    /\ [](tk_last = "raised"
            => /\ ~ InsideWindow(tk_stored, tk_issued > 0, clock)
               /\ ~ CachedValid(tk_impl, tk_cache[tk_impl], clock))

\* Witness of C24: a refresh failed while an expired token was cached; the
\* token is still there and the lock is free.
C24_Witness ==
    /\ tk_last = "raised"
    /\ tk_cache[tk_impl].token = 1
    /\ tk_lock = "free"
    /\ \E c \in Callers : tk_result[c] = TokenResult("raised", 0)

(***************************************************************************)
(* Claims about the replay worker (checked under SpecReplay).              *)
(***************************************************************************)
SameApproval(x, y) == x.pos = y.pos

\* The requests sent to a backend for the approval of a record.
SentFor(r) == {i \in 1..Len(rp_sent) : SameApproval(rp_sent[i], r)}

HandshakeDone(r) ==
    \E i \in SentFor(r) : rp_sent[i].kind = "initialize" /\ rp_sent[i].ok
PayloadDone(r) ==
    \E i \in SentFor(r) : rp_sent[i].kind = "payload" /\ rp_sent[i].ok

\* C25: the approvals of the fetched list are handled one after the other in
\* the order of the list; each gets one recordExecution call, made after its
\* backend requests and before those of the next approval, also after a
\* recordExecution call that failed; the call says "completed" with the
\* response text exactly when the handshake and the payload request both
\* succeeded, otherwise "failed" with an error text; the payload is sent
\* only after a handshake that succeeded.
C25_RecordOncePerApproval ==
    /\ Len(rp_records) = (IF rp_i = 0 THEN 0 ELSE rp_i - 1)
    /\ \A k \in 1..Len(rp_records) :
        rp_records[k].pos = k /\ rp_records[k].approval = rp_queued[k]
    /\ (rp_pc = "wait" /\ rp_i > 0) => Len(rp_records) = Len(rp_queued)
    /\ \A k \in 1..Len(rp_records) :
        LET r == rp_records[k]
        IN  /\ r.exec.status = "completed" <=> (HandshakeDone(r) /\ PayloadDone(r))
            /\ r.exec.status = "completed" => r.exec.result = "response text"
            /\ r.exec.status # "completed"
                   => r.exec.status = "failed" /\ r.exec.result # ""
            /\ \A i \in SentFor(r) : rp_sent[i].at = k - 1
    /\ \A i \in 1..Len(rp_sent) :
        /\ rp_sent[i].kind = "payload"
               => i > 1 /\ SameApproval(rp_sent[i - 1], rp_sent[i])
                        /\ rp_sent[i - 1].kind = "initialize" /\ rp_sent[i - 1].ok
        /\ rp_sent[i].kind = "initialize"
               => i = 1 \/ ~ SameApproval(rp_sent[i - 1], rp_sent[i])

\* Witness of C25: a cycle over two approvals; the first was executed and
\* its recordExecution call failed, the second failed at the handshake and
\* was recorded.
C25_Witness ==
    /\ rp_pc = "wait"
    /\ rp_cycles = 1
    /\ Len(rp_records) = 2
    /\ rp_records[1].exec = Exec("completed", "response text")
    /\ rp_records[1].outcome = "failed"
    /\ rp_records[2].exec = Exec("failed", "initialize error")
    /\ rp_records[2].outcome = "ok"
    /\ Len(rp_sent) = 3

\* An approval that names no configured backend or holds no JSON payload.
Unreplayable(approval) ==
    \/ approval.serviceName \notin {"gmail"}
    \/ approval.requestPayload \in {"", "{bad"}

\* C26: no request goes to a backend for an approval whose serviceName is
\* missing or not in the backend map or whose requestPayload is empty or not
\* JSON; its execution is recorded as "failed" with a reason.
C26_UnreplayableFailsUnsent ==
    /\ \A i \in 1..Len(rp_sent) : ~ Unreplayable(rp_sent[i].approval)
    /\ \A k \in 1..Len(rp_records) :
        Unreplayable(rp_records[k].approval)
            => /\ rp_records[k].exec.status = "failed"
               /\ rp_records[k].exec.result # ""
    /\ (rp_pc \in {"initialize", "payload"}) => ~ Unreplayable(rp_queued[rp_i])

\* Witness of C26: an approval for a configured backend whose payload is not
\* JSON was recorded as failed and nothing was sent.
C26_Witness ==
    /\ rp_sent = <<>>
    /\ Len(rp_records) = 1
    /\ rp_records[1].approval = Approval("a1", "gmail", "{bad")
    /\ rp_records[1].exec.status = "failed"

\* This step sends a request of this kind to a backend for this approval.
Sends(id, kind) ==
    /\ Len(rp_sent') = Len(rp_sent) + 1
    /\ rp_sent'[Len(rp_sent')].approval.approvalId = id
    /\ rp_sent'[Len(rp_sent')].kind = kind

\* C27: no request is sent to a backend for an approval the authority has
\* recorded; a payload is sent again for an approval only after a
\* recordExecution call for it failed.
C27_NoReplayAfterRecord ==
    /\ [][\A id \in SeqRange(ApprovalIds) :
            /\ (Sends(id, "initialize") \/ Sends(id, "payload"))
                   => ~ rp_hist[id].recorded
            /\ (Sends(id, "payload") /\ rp_hist[id].payloads >= 1)
                   => rp_hist[id].failed]_vars
    /\ [](\A id \in SeqRange(ApprovalIds) :
            rp_hist[id].payloads > 1 => rp_hist[id].failed)

\* Witness of C27: the payload of an approval was sent in two cycles; the
\* first recordExecution call failed, the second succeeded and the approval
\* left the queue.
C27_Witness ==
    /\ rp_cycles = 2
    /\ rp_hist["a1"] = Hist(2, TRUE, TRUE)
    /\ Len(rp_records) = 1
    /\ rp_records[1].outcome = "ok"
    /\ rp_queue = <<>>

(***************************************************************************)
(* Claims about the event listener (checked under SpecListener).           *)
(***************************************************************************)
\* C28: connected is true only while a connection is open, and the listener
\* is about to connect only at its start or after a backoff sleep.
C28_ReconnectOnlyAfterBackoff ==
    /\ sse_connected => l_pc = "streaming"
    /\ l_pc = "connect" => l_since \in {"start", "slept"}

\* C29: last_event_id is at all times the id of the latest state event that
\* had one; the first connection attempt carries no Last-Event-ID and every
\* attempt carries that id, none while no such event was handled.
C29_LastEventIdSurvives ==
    /\ [](last_event_id = current_sse_event_id)
    /\ [][(l_pc = "connect" /\ l_pc' # "connect")
            => /\ l_sent' = current_sse_event_id
               /\ l_since = "start" => l_sent' = 0]_vars

\* Witness of C29: an event with id 1, then a state event without id, then
\* the connection broke; the attempt after the sleep, which failed, carried
\* Last-Event-ID 1.
C29_Witness ==
    /\ l_pc = "backoff"
    /\ backoff = 2
    /\ l_sent = 1
    /\ l_event = Event("state", 0)
    /\ current_sse_event_id = 1

\* C30: a state event sets lastEventAt to the time, sets lastEventId (and
\* the id the bundle metadata reports) when it has an id and leaves it
\* otherwise, latches the rebuild trigger, and latches the replay trigger
\* when replay is enabled and leaves it otherwise; an event of any other
\* type changes none of them.
C30_OnlyStateEventsChangeState ==
    [][l_seen' # l_seen =>
        IF l_event'.type = "state"
        THEN /\ last_sse_event_at' = clock
             /\ last_event_id' = (IF l_event'.id # 0 THEN l_event'.id ELSE last_event_id)
             /\ current_sse_event_id' = last_event_id'
             /\ rebuild_signal'
             /\ replay_signal' = (IF replay_enabled THEN TRUE ELSE replay_signal)
        ELSE UNCHANGED <<last_event_id, current_sse_event_id, last_sse_event_at,
                         rebuild_signal, replay_signal>>]_vars

\* Witness of C30: with replay enabled, a state event with id 1 at time 0,
\* later a tick event that carries an id of its own.
C30_Witness ==
    /\ replay_enabled
    /\ l_event = Event("tick", MaxEvents + 1)
    /\ last_event_id = 1
    /\ last_sse_event_at = 0
    /\ clock > 0
    /\ rebuild_signal
    /\ replay_signal

(***************************************************************************)
(* Claims about the constraint-cache snapshot (SpecSnapshot, SpecCacheLoop).*)
(***************************************************************************)
\* The entry a refresh makes of one discovered item.
EntryOfItem(i) ==
    [instanceId |-> r_items[i].id, toolConfigs |-> FetchToolConfigs(r_outcomes[i])]

\* The entries a request may hold: the one of the earlier snapshot, or the
\* one of the snapshot published since.
EntriesOfOneSnapshot(svc) ==
    {CacheGet(EarlierSnapshot, svc)}
        \cup (IF r_pc = "done" THEN {CacheGet(config_cache, svc)} ELSE {})

\* The cache is one snapshot as a whole: the earlier one until the refresh
\* publishes, then exactly the services this refresh discovered, each entry
\* made of one item of this refresh.
CacheIsOneSnapshot ==
    /\ r_pc = "start" => config_cache = EarlierSnapshot
    /\ r_pc = "done" =>
        /\ DOMAIN config_cache = {r_items[i].serviceName : i \in UsableItems}
        /\ \A svc \in DOMAIN config_cache :
            \E i \in UsableItems :
                r_items[i].serviceName = svc /\ config_cache[svc] = EntryOfItem(i)

\* C31: every evaluation uses one cache snapshot.  The service entry (its
\* instanceId and its tool configs together) is read once, from the cache as
\* it is at the lookup, and is kept to the end of the request; it is an entry
\* of the earlier snapshot or of the new one, never a mixture.  A refresh
\* replaces the whole mapping, so services it did not discover are gone.
C31_OneSnapshotPerEvaluation ==
    /\ [](CacheIsOneSnapshot
          /\ (h_pc \in {"looked_up", "forward", "done"} /\ h_body.serviceName # ""
                => h_svc_entry \in EntriesOfOneSnapshot(h_body.serviceName)))
    /\ [][/\ (h_pc = "idle" /\ h_pc' = "looked_up"
                => h_svc_entry' = CacheGet(config_cache, h_body'.serviceName))
          /\ (h_pc # "idle" /\ h_pc' # "idle"
                => h_svc_entry' = h_svc_entry /\ h_body' = h_body)]_vars

\* Witness of C31: a request that looked gmail up before the refresh finishes
\* on the earlier entry, while the cache already holds another entry for the
\* same instance and no entry for slack, which was not discovered again.
C31_Witness ==
    /\ r_pc = "done"
    /\ h_pc = "done"
    /\ h_body.serviceName = "gmail"
    /\ h_svc_entry = EarlierSnapshot["gmail"]
    /\ "gmail" \in DOMAIN config_cache
    /\ config_cache["gmail"].instanceId = "g1"
    /\ config_cache["gmail"] # h_svc_entry
    /\ "slack" \notin DOMAIN config_cache

\* C36: a refresh that fails as a whole leaves the published snapshot as it
\* was (so a failed refresh never empties the cache), and the refresh loop
\* goes on: the failed refresh is followed by the next attempt.
C36_FailedRefreshKeepsSnapshot ==
    /\ [][r_pc' = "failed" => config_cache' = config_cache]_vars
    /\ ((r_pc = "failed") ~> (r_pc = "start"))

\* Witness of C36: a refresh failed over a snapshot that an earlier refresh
\* of the loop had published, and the snapshot is still there.
C36_Witness ==
    /\ r_pc = "failed"
    /\ config_cache # <<>>
    /\ config_cache # EarlierSnapshot

(***************************************************************************)
(* Claims about the approval default (checked under SpecEval).             *)
(***************************************************************************)
\* C37: a cached tool config without a requiresApproval field requires
\* approval.  When its constraints pass, the handler forwards the request to
\* the authority; it never answers allow by itself, so an allow is the
\* authority's answer to that forward.
C37_MissingApprovalFieldForwards ==
    (/\ h_pc \in {"forward", "done"}
     /\ ReqToolConfig # NoToolConfig
     /\ ReqToolConfig.requiresApproval = "absent"
     /\ ConstraintsPassed)
        => /\ h_pc = "forward" \/ h_forwards = 1
           /\ h_response.decision = "allow" =>
                (h_npl.kind = "ok" /\ h_npl.response.decision = "allow")
           /\ h_pc = "done" => h_response = AfterForward(h_npl)

\* Witness of C37: the config has a constraint and no requiresApproval
\* field, the argument passes the constraint, and the request went to the
\* authority, whose answer (pending) is the response.
C37_Witness ==
    /\ h_pc = "done"
    /\ ReqToolConfig = TC_unset
    /\ ReqArguments = ArgsObject("to" :> StrV(T_ac))
    /\ h_forwards = 1
    /\ h_response.decision = "pending"

(***************************************************************************)
(* Claims about unknown operators (checked under SpecConstraints).         *)
(***************************************************************************)
KnownOperators == {"in", "not_in", "contains", "not_contains", "regex", "max_length"}

\* The request for tool `send` of a service whose cached config is ec_config,
\* with ec_arguments as its arguments object.
EntryOfConfig == [instanceId |-> "g1", toolConfigs |-> ("send" :> ec_config)]
BodyOfArguments ==
    [serviceName |-> "gmail", toolName |-> "send", arguments |-> ArgsObject(ec_arguments)]

\* C38: a constraint with an operator outside the six known ones never
\* causes a deny.  It counts as satisfied and the loop goes on: the result is
\* the one of the constraint list without the unknown-operator constraints.
\* So when every constraint of a requiresApproval = false tool has an unknown
\* operator, the result is (True, "Constraints satisfied") and the request
\* is answered allow locally, whatever the arguments object.
C38_UnknownOperatorPasses ==
    ec_pc = "done" =>
        LET cs == ec_config.constraints
            known == SelectSeq(cs, LAMBDA c : c.operator \in KnownOperators)
        IN  /\ ec_result =
                 evaluate_constraints([ec_config EXCEPT !.constraints = known],
                                      ec_arguments)
            /\ ~ ec_result[1] =>
                 \E i \in ViolatedPositions(cs, ec_arguments) :
                     cs[i].operator \in KnownOperators
            /\ known = <<>> =>
                 /\ ec_result = <<TRUE, MsgSatisfied>>
                 /\ ec_config.requiresApproval = "false"
                 /\ DecideLocally(EntryOfConfig, BodyOfArguments) =
                      <<"respond", Decision("allow", "", MsgSatisfied)>>

\* Witness of C38: the only constraint is `to starts_with x@e`, the argument
\* `to` is present and does not start with x@e, and the constraints pass.
C38_Witness ==
    /\ ec_pc = "done"
    /\ Len(ec_config.constraints) = 1
    /\ ec_config.constraints[1].operator = "starts_with"
    /\ ec_config.constraints[1].values = <<T_xe>>
    /\ ArgGet(ec_arguments, "to") = StrV(T_ac)
    /\ ec_result = <<TRUE, MsgSatisfied>>

(***************************************************************************)
(* Claims about the listener's backoff (checked under SpecListener).       *)
(***************************************************************************)
BackoffValues == {1, 2, 4, 8, 16, 30}

\* The sleeps that have ended since the last successful connection.
SleepsDone == IF l_pc = "backoff" THEN l_fails - 1 ELSE l_fails

\* C32: the backoff is always one of 1, 2, 4, 8, 16, 30.  It is 1 at the
\* start and after every successful connection; each failed attempt sleeps
\* the current value and then sets min(30, 2 * previous).  So the n-th
\* consecutive failure since the last success sleeps min(30, 2^(n-1)).
C32_BackoffSchedule ==
    /\ [](/\ backoff \in BackoffValues
          /\ l_pc = "streaming" => backoff = 1 /\ l_fails = 0
          /\ l_fails < MaxFails => backoff = Min(30, 2 ^ SleepsDone))
    /\ [][/\ (l_pc = "connect" /\ l_pc' = "streaming" => backoff' = 1)
          /\ (l_pc = "backoff" /\ l_pc' = "connect"
                => backoff' = Min(30, 2 * backoff))
          /\ (l_pc' = "backoff" \/ l_pc = "streaming" => backoff' = backoff)]_vars

\* Witness of C32: the sixth consecutive failure is about to sleep 30
\* seconds, the cap, where doubling would give 32.
C32_Witness ==
    /\ l_pc = "backoff"
    /\ l_fails = 6
    /\ backoff = 30

(***************************************************************************)
(* Claims about the order of fetches, events and publications (SpecRace).  *)
(***************************************************************************)
\* The sse_event_id in a bundle's _bundle_metadata.
StampOf(bundle) == bundle.data_json.bundle_metadata.sse_event_id

\* Thread t publishes its bundle in this step.
Publishes(t) == b_pc[t] = "swap" /\ b_pc'[t] = "count_load"

\* C33 (as claimed): a published bundle never carries the id of an event
\* that was observed only after its policy data had been fetched, and the
\* first bundle published after the state event with id N (no later event
\* observed) carries sse_event_id = N.
C33_EventIdMatchesData ==
    /\ [](\A t \in BuildThreads :
             b_pc[t] \in {"count_load", "count_store"} =>
                 /\ current_bundle = b_built[t].bundle_bytes
                      => StampOf(current_bundle) <= b_fetch_id[t]
                 /\ StampOf(b_built[t].bundle_bytes) <= b_fetch_id[t])
    /\ [][\A t \in BuildThreads :
             Publishes(t) /\ swap_seen < current_sse_event_id
                 => StampOf(current_bundle') = current_sse_event_id]_vars

\* C35 (as claimed): no swap publishes a bundle built from data fetched at
\* an authority version older than the version of the bundle it replaces.
C35_ServedVersionNeverGoesBack ==
    [][\A t \in BuildThreads :
          Publishes(t) => /\ b_version[t] >= current_version
                          /\ current_version' >= current_version]_vars

(***************************************************************************)
(* Claims about the replay worker's progress (checked under SpecReplayLive).*)
(***************************************************************************)
\* The approval with this id is in the authority's queue.
Queued(id) == \E i \in 1..Len(rp_queue) : rp_queue[i].approvalId = id

\* The worker can still start a cycle (the model counts MaxCycles of them).
CanStartCycle == b_pc["main"] = "serving" /\ rp_cycles < MaxCycles

\* C34: with replay enabled the worker's wait ends on the trigger or on the
\* poll timeout, so a cycle starts whether or not the trigger is set, and the
\* trigger is cleared before the cycle acts.  A trigger set while a cycle
\* runs is not cleared by that cycle; it is cleared by the start of the next
\* one.  So, once authority and backends are reachable, every queued
\* approval is eventually executed and recorded, state events or none.
C34_QueuedApprovalsReplayed ==
    /\ [][/\ (rp_pc = "wait" /\ rp_pc' # "wait" => ~ replay_signal')
          /\ (rp_pc # "wait" /\ replay_signal => replay_signal')
          /\ (\A i \in 1..Len(rp_records') : rp_records'[i].exec # NoExec)
          /\ (\A id \in SeqRange(ApprovalIds) :
                 Queued(id) /\ ~ Queued(id)' => rp_hist'[id].recorded)]_vars
    /\ [](rp_pc = "wait" /\ CanStartCycle => ENABLED ReplayWake)
    /\ ((stable /\ CanStartCycle) ~> (rp_queue = <<>>))

\* Witness of C34: no state event was ever delivered, and the queued
\* approval has been sent to its backend and recorded; the queue is empty.
C34_Witness ==
    /\ stable
    /\ l_event = NoEvent
    /\ ~ replay_signal
    /\ rp_queue = <<>>
    /\ rp_hist["a1"].recorded
    /\ rp_hist["a1"].payloads >= 1

(***************************************************************************)
(* Claims about the grants of the policy document (checked under SpecGrants).*)
(***************************************************************************)
\* The subjects the authority lists as revoked, and the grants it holds.
RevokedAtAuthority ==
    IF g_policy.revokedSubjects.present
    THEN {g_policy.revokedSubjects.value[i] :
              i \in 1..Len(g_policy.revokedSubjects.value)}
    ELSE {}
GrantsAtAuthority == IF g_policy.grants.present THEN g_policy.grants.value ELSE <<>>

====
